---- MODULE Spec2Model ----
(***************************************************************************)
(* Smart content retrieval engine of AgentHub: the web_fetch tool of       *)
(* src/tools/webtools/web_fetch.py and of                                  *)
(* src/agents/web_agent/tools/web_fetch2.py.                               *)
(*                                                                         *)
(* Conventions.                                                            *)
(*  - A Python string is a sequence of tokens; one token stands for a run  *)
(*    of characters, so lengths and slice indexes count tokens.            *)
(*  - A Python call that may raise yields [exc |-> BOOLEAN, val |-> ...].  *)
(*  - asyncio runs one callback at a time: an action is the code between   *)
(*    two suspension points (await) of a coroutine.                        *)
(*  - @alru_cache is async_lru's decorator: an OrderedDict of              *)
(*    key -> (future, later_call), a task per miss, a done-callback that   *)
(*    resolves the future and arms the TTL timer, popitem(last=False) when *)
(*    the size exceeds maxsize.                                            *)
(***************************************************************************)
EXTENDS Integers, Sequences, FiniteSets, TLC

VARIABLES
    variant,    \* which tool module runs: "web_fetch" or "web_fetch2"
    capacity,   \* the maxsize the decorator was applied with
    cache,      \* alru_cache's OrderedDict, least recently used first
    timers,     \* loop.call_later handles that are scheduled, with the delay left
    tasks,      \* the tasks alru_cache created for _crawl_url, by id
    calls,      \* the web_fetch calls, by id
    convs,      \* the _process_with_markitdown calls, by id
    files,      \* the temporary files that exist on disk
    pager,      \* a caller that reads a text page by page
    md_converter,       \* self.md_converter: 0 for None, else the run of
                        \* _init_markitdown that returned it
    md_converter_lock,  \* self._md_converter_lock: locked, and the waiters
    init_log,           \* the runs of _init_markitdown, in the order they began
    readers,            \* the advanced_read_file calls, by id
    file_cache,         \* the OrderedDict of _convert_file_cached's cache
    file_tasks,         \* the tasks alru_cache created for _convert_file_cached
    backend,            \* the class of self.backend
    self_session,       \* MemosClient._session: 0 for None, else a session
    sessions,           \* the aiohttp.ClientSession objects, by id
    entered,            \* whether the client is inside its "async with" block
    posts,              \* the calls of MemosClient's methods, by id
    ctx,                \* each task's values of the five context variables
    blocks,             \* each task's LogContext blocks, innermost last
    self_tokens,        \* each LogContext instance's _tokens
    used,               \* the tokens that reset() has consumed
    minted              \* the number of tokens set() has returned

vars == <<variant, capacity, cache, timers, tasks, calls, convs, files, pager,
          md_converter, md_converter_lock, init_log, readers, file_cache,
          file_tasks, backend, self_session, sessions, entered, posts,
          ctx, blocks, self_tokens, used, minted>>
\* what is fixed when the modules are loaded and the middleware is built
config == <<variant, capacity, backend>>
docvars == <<convs, files>>
enginevars == <<cache, timers, tasks, calls>>
pagevars == <<pager>>
mwvars == <<md_converter, md_converter_lock, init_log, readers, file_cache,
            file_tasks>>
memovars == <<self_session, sessions, entered, posts>>
ctxvars == <<ctx, blocks, self_tokens, used, minted>>
\* what each part of the model leaves alone
notengine == <<docvars, pagevars, mwvars, memovars, ctxvars>>
notdoc == <<enginevars, pagevars, mwvars, memovars, ctxvars>>
notpage == <<enginevars, docvars, mwvars, memovars, ctxvars>>
notmw == <<enginevars, docvars, pagevars, memovars, ctxvars>>
notmemo == <<enginevars, docvars, pagevars, mwvars, ctxvars>>
notctx == <<enginevars, docvars, pagevars, mwvars, memovars>>

----------------------------------------------------------------------------
(* Bounds of the model *)

\* the number of web_fetch calls explored: by Spec, by SpecInputs (over every
\* input of a call) and by SpecWarm (every fetch succeeds)
EngineCalls == 3
InputCalls == 2
MaxCalls == 4
\* the number of document conversions explored by SpecDoc
MaxConvs == 2
\* the longest text the pager reads, in tokens
MaxLen == 4
\* the most pages one reading asks for
MaxPages == 8
\* the decorator's maxsize (32 in the source), scaled down so that capacity
\* eviction happens within MaxCalls calls
maxsize == 1
\* the number of calls SpecLru explores
LruCalls == 4
\* the clock advances in steps of TickStep seconds
TickStep == 300
\* the number of advanced_read_file calls SpecMw explores
MwReaders == 3

(* Program constants *)
ttl == 600
\* the lifetime of a cached page that web_fetch's description states,
\* 15 minutes in seconds
DocumentedTtl == 900
\* the default of advanced_read_file's limit
DefaultLimit == 2000

CallIds == 1..MaxCalls
ReaderIds == 1..MwReaders
ConvIds == 1..MaxConvs

----------------------------------------------------------------------------
(* Strings *)

Min(a, b) == IF a < b THEN a ELSE b

\* s[a:b] of Python, for any integers a and b
PySlice(s, a, b) ==
    LET n  == Len(s)
        na == IF a < 0 THEN (IF a + n < 0 THEN 0 ELSE a + n) ELSE Min(a, n)
        nb == IF b < 0 THEN (IF b + n < 0 THEN 0 ELSE b + n) ELSE Min(b, n)
    IN  IF na < nb THEN SubSeq(s, na + 1, nb) ELSE <<>>

\* str(n) of an integer
IntStr(n) == ToString(n)

Ret(v) == [exc |-> FALSE, val |-> v]
Raise(v) == [exc |-> TRUE, val |-> v]

----------------------------------------------------------------------------
(* URLs.  A URL is the token sequence <<scheme, netloc, path tokens...>>,  *)
(* or a single token when it has no "//" authority part.                   *)

UrlA      == <<"https://", "a.example", "/", "article">>
UrlB      == <<"https://", "b.example", "/", "report", ".pdf">>
UrlC      == <<"https://", "c.example", "/", "download", ".jsp", "?", "id=1">>
UrlD      == <<"https://", "b.example", "/", "report", ".pdf", "?", "dl=1">>
UrlQ      == <<"https://", "b.example", "/", "view", "?", "f=", "/", "a", ".pdf">>
UrlMeta   == <<"http://", "169.254.169.254", "/">>
UrlNoHost == <<"about:blank">>
UrlBad    == <<"http://", "[bad", "/">>

\* the URLs whose host name the resolver looks up
Urls == {UrlA, UrlB, UrlC}
AllUrls == Urls \cup {UrlMeta, UrlNoHost, UrlBad}

(* IPv4 addresses are <<a, b, c, d>> *)
PublicIp    == <<93, 184, 216, 34>>
PrivateIp   == <<10, 0, 0, 5>>
LoopbackIp  == <<127, 0, 0, 1>>
MetadataIp  == <<169, 254, 169, 254>>
NoIp        == <<0, 0, 0, 0>>

\* what socket.gethostbyname may answer for a host name: an address, or
\* socket.gaierror
DnsAnswers ==
    {Ret(PublicIp), Ret(PrivateIp), Ret(LoopbackIp), Ret(MetadataIp), Raise(NoIp)}

\* urlparse(url).hostname; raises ValueError on an unbalanced "[" in netloc;
\* the hostname is None ("" here) when the URL has no authority part
urlparse_hostname(url) ==
    IF Len(url) >= 2 /\ url[1] \in {"http://", "https://"}
    THEN IF url[2] = "[bad" THEN Raise("") ELSE Ret(url[2])
    ELSE Ret("")

\* socket.gethostbyname(hostname): a dotted quad is returned as it is, a name
\* gets the resolver's answer
gethostbyname(hostname, answer) ==
    IF hostname = "169.254.169.254" THEN Ret(MetadataIp) ELSE answer

\* ipaddress.IPv4Address.is_loopback: 127.0.0.0/8
is_loopback(ip) == ip[1] = 127

\* ipaddress.IPv4Address.is_private: the IANA special-purpose blocks
is_private(ip) ==
    \/ ip[1] = 0
    \/ ip[1] = 10
    \/ ip[1] = 127
    \/ ip[1] = 169 /\ ip[2] = 254
    \/ ip[1] = 172 /\ ip[2] >= 16 /\ ip[2] <= 31
    \/ ip[1] = 192 /\ ip[2] = 0 /\ ip[3] = 0 /\ ip[4] <= 7
    \/ ip[1] = 192 /\ ip[2] = 0 /\ ip[3] = 0 /\ ip[4] \in {170, 171}
    \/ ip[1] = 192 /\ ip[2] = 0 /\ ip[3] = 2
    \/ ip[1] = 192 /\ ip[2] = 168
    \/ ip[1] = 198 /\ ip[2] \in {18, 19}
    \/ ip[1] = 198 /\ ip[2] = 51 /\ ip[3] = 100
    \/ ip[1] = 203 /\ ip[2] = 0 /\ ip[3] = 113
    \/ ip[1] >= 240

\* a check that refuses loopback addresses only
check_host_loopback_only(hostname, answer) ==
    LET r == gethostbyname(hostname, answer)
    IN  IF r.exc
        THEN [ok |-> FALSE, lookups |-> 1, ip |-> NoIp, resolve_exc |-> TRUE]
        ELSE IF is_loopback(r.val)
        THEN [ok |-> FALSE, lookups |-> 1, ip |-> r.val, resolve_exc |-> FALSE]
        ELSE [ok |-> TRUE, lookups |-> 1, ip |-> r.val, resolve_exc |-> FALSE]

\* a check that lets a host through when its resolution fails
check_host_fail_open(hostname, answer) ==
    LET r == gethostbyname(hostname, answer)
    IN  IF r.exc
        THEN [ok |-> TRUE, lookups |-> 1, ip |-> NoIp, resolve_exc |-> TRUE]
        ELSE IF is_private(r.val) \/ is_loopback(r.val)
        THEN [ok |-> FALSE, lookups |-> 1, ip |-> r.val, resolve_exc |-> FALSE]
        ELSE [ok |-> TRUE, lookups |-> 1, ip |-> r.val, resolve_exc |-> FALSE]

\* the inner try of is_safe_url: resolve, then refuse private and loopback
\* addresses; any exception refuses.  ok is the verdict; lookups counts the
\* gethostbyname calls made, ip is the address looked at, resolve_exc tells a
\* failed resolution
check_host(hostname, answer) ==
    LET r == gethostbyname(hostname, answer)
    IN  IF r.exc
        THEN [ok |-> FALSE, lookups |-> 1, ip |-> NoIp, resolve_exc |-> TRUE]
        ELSE IF is_private(r.val) \/ is_loopback(r.val)
        THEN [ok |-> FALSE, lookups |-> 1, ip |-> r.val, resolve_exc |-> FALSE]
        ELSE [ok |-> TRUE, lookups |-> 1, ip |-> r.val, resolve_exc |-> FALSE]

\* the body of is_safe_url(url), with what it did
check_url(url, answer) ==
    LET parsed == urlparse_hostname(url)
        refused == [ok |-> FALSE, lookups |-> 0, ip |-> NoIp, resolve_exc |-> FALSE]
    IN  IF parsed.exc THEN refused
        ELSE IF parsed.val = "" THEN refused
        ELSE check_host(parsed.val, answer)

\* is_safe_url(url)
is_safe_url(url, answer) == check_url(url, answer).ok

----------------------------------------------------------------------------
(* The strings the tool returns *)

SecurityBlock ==
    <<"<error>", "Security Block: Private IP access denied.", "</error>">>

\* f"<error>Fetch failed: {str(e)}</error>"
FetchFailed(e) == <<"<error>", "Fetch failed: ">> \o e \o <<"</error>">>

NoContent == <<"No content found.">>

EndOfContent(full_len) ==
    <<"<system-reminder>End of content. Total length: ", IntStr(full_len),
      "</system-reminder>">>

TruncatedMarker(end_index) ==
    <<"<system-reminder>Truncated! Call tool again with start_index=",
      IntStr(end_index), " to continue reading.</system-reminder>">>

\* process_content without the test of start_index against the length
process_content_no_end_test(markdown_text, start_index, max_length) ==
    IF markdown_text = <<>> THEN NoContent
    ELSE LET full_len == Len(markdown_text)
             end_index == Min(start_index + max_length, full_len)
             chunk == PySlice(markdown_text, start_index, end_index)
         IN  IF end_index < full_len
             THEN chunk \o TruncatedMarker(end_index)
             ELSE chunk

\* process_content whose marker names the offset one past the end of the chunk
process_content_skip(markdown_text, start_index, max_length) ==
    IF markdown_text = <<>> THEN NoContent
    ELSE LET full_len == Len(markdown_text)
         IN  IF start_index >= full_len THEN EndOfContent(full_len)
             ELSE LET end_index == Min(start_index + max_length, full_len)
                      chunk == PySlice(markdown_text, start_index, end_index)
                  IN  IF end_index < full_len
                      THEN chunk \o TruncatedMarker(end_index + 1)
                      ELSE chunk

\* process_content(markdown_text, start_index, max_length)
process_content(markdown_text, start_index, max_length) ==
    IF markdown_text = <<>> THEN NoContent
    ELSE LET full_len == Len(markdown_text)
         IN  IF start_index >= full_len THEN EndOfContent(full_len)
             ELSE LET end_index == Min(start_index + max_length, full_len)
                      chunk == PySlice(markdown_text, start_index, end_index)
                  IN  IF end_index < full_len
                      THEN chunk \o TruncatedMarker(end_index)
                      ELSE chunk

(* _process_with_markitdown's return values *)
DownloadFailed(status) ==
    <<"<error>", "Download failed: HTTP ", IntStr(status), "</error>">>

MarkItDownFailed(e) == <<"<error>", "MarkItDown failed: ">> \o e \o <<"</error>">>

DocumentContent(content_type, markdown_text) ==
    <<"# Document Content (Source: ", content_type, ")">> \o markdown_text

(* _crawl_url's return value and exception on a crawl that reports failure *)
Crawl4AIFailed(err) == <<"<error>", "Crawl4AI failed: ">> \o err \o <<"</error>">>

CrawlFailed(error_message) ==
    <<"Crawl failed: ">> \o
    (IF error_message = <<>> THEN <<"Unknown error">> ELSE error_message)

----------------------------------------------------------------------------
(* What the network, the browser and the converter may do *)

\* MIME_TO_EXT
MIME_TO_EXT ==
    [ct \in {"application/pdf",
             "application/vnd.openxmlformats-officedocument.wordprocessingml.document",
             "application/msword",
             "application/vnd.openxmlformats-officedocument.spreadsheetml.sheet",
             "application/vnd.ms-excel",
             "application/vnd.openxmlformats-officedocument.presentationml.presentation",
             "application/vnd.ms-powerpoint",
             "text/csv", "application/rtf", "text/plain"} |->
        CASE ct = "application/pdf" -> ".pdf"
          [] ct = "application/vnd.openxmlformats-officedocument.wordprocessingml.document" -> ".docx"
          [] ct = "application/msword" -> ".doc"
          [] ct = "application/vnd.openxmlformats-officedocument.spreadsheetml.sheet" -> ".xlsx"
          [] ct = "application/vnd.ms-excel" -> ".xls"
          [] ct = "application/vnd.openxmlformats-officedocument.presentationml.presentation" -> ".pptx"
          [] ct = "application/vnd.ms-powerpoint" -> ".ppt"
          [] ct = "text/csv" -> ".csv"
          [] ct = "application/rtf" -> ".rtf"
          [] ct = "text/plain" -> ".txt"]

\* url.lower(), token by token
Lower(tok) ==
    CASE tok = ".PDF" -> ".pdf"
      [] tok = "Application/PDF" -> "application/pdf"
      [] tok = " Text/HTML" -> " text/html"
      [] OTHER -> tok

\* any(url.lower().endswith(x) for x in ['.pdf', '.docx', '.xlsx', '.pptx'])
EndsWithDocSuffix(url) ==
    Len(url) > 0 /\ Lower(url[Len(url)]) \in {".pdf", ".docx", ".xlsx", ".pptx"}

\* the answers to the HEAD probe: a transport error, or a status with the
\* Content-Type header (lower-cased, parameters cut, "" when absent)
ProbeAnswers ==
    {[exc |-> TRUE, status |-> 0, ctype |-> ""]} \cup
    [exc : {FALSE}, status : {200, 403, 404, 405},
     ctype : {"", "text/html", "application/pdf", "application/octet-stream"}]

\* the probe with the URL suffix consulted when the probe is inconclusive
Probe_SuffixOnError(url, p) ==
    IF p.exc \/ p.status \in {403, 404, 405} THEN <<EndsWithDocSuffix(url), "">>
    ELSE IF p.ctype \in DOMAIN MIME_TO_EXT THEN <<TRUE, p.ctype>>
    ELSE IF EndsWithDocSuffix(url) THEN <<TRUE, p.ctype>>
    ELSE <<FALSE, p.ctype>>

\* the probe of _crawl_url: <<is_document, detected_type>>
Probe(url, p) ==
    IF p.exc THEN <<FALSE, "">>
    ELSE IF p.status \in {403, 404, 405} THEN <<FALSE, "">>
    ELSE IF p.ctype \in DOMAIN MIME_TO_EXT THEN <<TRUE, p.ctype>>
    ELSE IF EndsWithDocSuffix(url) THEN <<TRUE, p.ctype>>
    ELSE <<FALSE, p.ctype>>

\* result.markdown of a successful crawl; text_content of a conversion
Markdowns == {<<>>, <<"a", "b", "c">>}

\* crawler.arun: a result with success, one with an error message, or an
\* exception out of the crawler
RenderAnswers ==
    [kind : {"ok"}, text : Markdowns] \cup
    [kind : {"failed"}, text : {<<>>, <<"net::ERR_TIMED_OUT">>}] \cup
    [kind : {"raised"}, text : {<<"BrowserType.launch">>}]

\* the document download and conversion: session.get raises or answers with a
\* status and a Content-Type; writing the body may raise; md.convert returns
\* the text or raises
DocAnswers ==
    [get_exc : {FALSE}, status : {200}, ctype : {"application/pdf"},
     write_exc : {FALSE}, convert : {Ret(<<"a", "b", "c">>), Raise(<<"PdfError">>)}]
    \cup
    [get_exc : {FALSE}, status : {500}, ctype : {"text/html"},
     write_exc : {FALSE}, convert : {Ret(<<>>)}]

\* whether the document path failed
DocFailed(d) == d.get_exc \/ d.status /= 200 \/ d.write_exc \/ d.convert.exc

\* what _process_with_markitdown(url, content_type) returns
process_with_markitdown(url, content_type, d) ==
    IF d.get_exc THEN MarkItDownFailed(<<"ClientError">>)
    ELSE IF d.status /= 200 THEN DownloadFailed(d.status)
    ELSE IF d.write_exc THEN MarkItDownFailed(<<"OSError">>)
    ELSE IF d.convert.exc THEN MarkItDownFailed(d.convert.val)
    ELSE DocumentContent(IF content_type = "" THEN d.ctype ELSE content_type,
                         d.convert.val)

----------------------------------------------------------------------------
(* The fetch engine: web_fetch calls over the cached _crawl_url *)

NewCall ==
    [pc |-> "new", url |-> <<>>, start_index |-> 0, max_length |-> 0,
     safe |-> FALSE, ip |-> NoIp, resolve_exc |-> FALSE, lookups |-> 0,
     cached |-> FALSE, prior |-> 0, expired |-> FALSE, entry_age |-> 0,
     fetched_age |-> -1, fut |-> 0, hit |-> "none", result |-> <<>>]

NoTask ==
    [pc |-> "none", url |-> <<>>, is_document |-> FALSE, detected_type |-> "",
     outcome |-> Ret(<<>>), failed |-> FALSE, age |-> 0, dropped |-> FALSE,
     probed |-> [exc |-> FALSE, status |-> 0, ctype |-> ""], steps |-> <<>>]

\* whether the task of _crawl_url is between its start and its end
Running(t) == tasks[t].pc \in {"probe", "doc", "page"}

\* the position of key in the OrderedDict, 0 when absent
CacheIndex(key) ==
    IF \E i \in 1..Len(cache) : cache[i].key = key
    THEN CHOOSE i \in 1..Len(cache) : cache[i].key = key
    ELSE 0

RemoveAt(seq, i) == SubSeq(seq, 1, i - 1) \o SubSeq(seq, i + 1, Len(seq))

\* a hit that leaves the entry where it is
MoveToEnd_Stay(seq, i) == seq

\* OrderedDict.move_to_end(key) of _cache_hit
MoveToEnd(seq, i) == Append(RemoveAt(seq, i), seq[i])

\* OrderedDict.pop(key, None)
CachePop(seq, key) == SelectSeq(seq, LAMBDA e : e.key /= key)

\* whether the cache holds a resolved entry for key
Resolved(key) ==
    CacheIndex(key) /= 0 /\ tasks[cache[CacheIndex(key)].fut].pc = "done"

\* what web_fetch returns once _crawl_url has returned or raised
Completed(outcome, start_index, max_length) ==
    IF outcome.exc THEN FetchFailed(outcome.val)
    ELSE process_content(outcome.val, start_index, max_length)

\* the first suspension point of a new _crawl_url task
FirstStep == IF variant = "web_fetch2" THEN "probe" ELSE "page"

\* alru_cache.__call__ on an entry whose future is done
CacheHitDone(c, base, i) ==
    /\ cache' = MoveToEnd([cache EXCEPT ![i].used = c], i)
    /\ calls' = [calls EXCEPT ![c] =
                   [base EXCEPT !.pc = "done", !.fut = cache[i].fut,
                                !.hit = "resolved",
                                !.entry_age = tasks[cache[i].fut].age,
                                !.result = Completed(tasks[cache[i].fut].outcome,
                                                     base.start_index,
                                                     base.max_length)]]
    /\ UNCHANGED <<tasks, timers>>

\* alru_cache.__call__ on an entry whose future is pending
CacheHitPending(c, base, i) ==
    /\ cache' = MoveToEnd([cache EXCEPT ![i].used = c], i)
    /\ calls' = [calls EXCEPT ![c] =
                   [base EXCEPT !.pc = "await", !.fut = cache[i].fut,
                                !.hit = "pending"]]
    /\ UNCHANGED <<tasks, timers>>

\* alru_cache.__call__ on a miss: a new future and task, the new entry, and
\* popitem(last=False) with the dropped item's timer cancelled when the size
\* exceeds maxsize
CacheMiss(c, base) ==
    LET added == Append(cache, [key |-> base.url, fut |-> c, later_call |-> 0,
                                used |-> c])
        started == [tasks EXCEPT ![c] =
                       [NoTask EXCEPT !.pc = FirstStep, !.url = base.url]]
    IN  /\ IF Len(added) > capacity
           THEN /\ cache' = Tail(added)
                /\ timers' = {tm \in timers : tm.id /= Head(added).later_call}
                /\ tasks' = [started EXCEPT ![Head(added).fut].dropped = TRUE]
           ELSE /\ cache' = added
                /\ timers' = timers
                /\ tasks' = started
        /\ calls' = [calls EXCEPT ![c] =
                       [base EXCEPT !.pc = "await", !.fut = c, !.hit = "miss"]]

\* await _crawl_url(url) up to its first suspension
CrawlUrlCall(c, base) ==
    LET i == CacheIndex(base.url)
    IN  IF i /= 0
        THEN IF tasks[cache[i].fut].pc = "done"
             THEN CacheHitDone(c, base, i)
             ELSE CacheHitPending(c, base, i)
        ELSE CacheMiss(c, base)

\* the latest earlier call for url that ended with fetched content which is
\* younger than ttl and whose entry no popitem dropped; 0 when there is none
PriorCall(c, url) ==
    LET S == {b \in 1..(c - 1) :
                 /\ calls[b].pc = "done" /\ calls[b].url = url /\ calls[b].fut /= 0
                 /\ tasks[calls[b].fut].pc = "done"
                 /\ ~ tasks[calls[b].fut].failed
                 /\ ~ tasks[calls[b].fut].dropped
                 /\ tasks[calls[b].fut].age < ttl}
    IN  IF S = {} THEN 0 ELSE CHOOSE b \in S : \A x \in S : x <= b

\* whether an earlier call for url ended with fetched content that is now as
\* old as ttl, its entry dropped by no popitem
ExpiredCall(c, url) ==
    \E b \in 1..(c - 1) :
        /\ calls[b].pc = "done" /\ calls[b].url = url /\ calls[b].fut /= 0
        /\ tasks[calls[b].fut].pc = "done"
        /\ ~ tasks[calls[b].fut].failed
        /\ ~ tasks[calls[b].fut].dropped
        /\ tasks[calls[b].fut].age >= ttl

\* the time since the latest fetch of url that ended with content and whose
\* entry no popitem dropped; -1 when there is none
FetchedAge(c, url) ==
    LET S == {t \in 1..(c - 1) :
                 /\ tasks[t].pc = "done" /\ tasks[t].url = url
                 /\ ~ tasks[t].failed /\ ~ tasks[t].dropped}
    IN  IF S = {} THEN -1
        ELSE CHOOSE a \in {tasks[t].age : t \in S} :
                \A t \in S : a <= tasks[t].age

\* web_fetch with the cache looked up before the URL is validated
WebFetch_CacheFirst(c, url, start_index, max_length, answer) ==
    /\ calls[c].pc = "new"
    /\ IF c = 1 THEN TRUE ELSE calls[c - 1].pc /= "new"
    /\ LET chk  == check_url(url, answer)
           base == [NewCall EXCEPT !.url = url, !.start_index = start_index,
                                   !.max_length = max_length,
                                   !.safe = is_safe_url(url, answer),
                                   !.ip = chk.ip,
                                   !.resolve_exc = chk.resolve_exc,
                                   !.lookups = chk.lookups,
                                   !.cached = Resolved(url),
                                   !.prior = PriorCall(c, url),
                                   !.expired = ExpiredCall(c, url),
                                   !.fetched_age = FetchedAge(c, url)]
       IN  IF CacheIndex(url) /= 0 \/ base.safe
           THEN CrawlUrlCall(c, base)
           ELSE /\ calls' = [calls EXCEPT ![c] =
                               [base EXCEPT !.pc = "done", !.result = SecurityBlock]]
                /\ UNCHANGED <<cache, timers, tasks>>
    /\ UNCHANGED <<config, notengine>>

\* web_fetch(url, start_index, max_length) up to its first suspension, with
\* the resolver's answer to the host name
WebFetch(c, url, start_index, max_length, answer) ==
    /\ calls[c].pc = "new"
    /\ IF c = 1 THEN TRUE ELSE calls[c - 1].pc /= "new"
    /\ LET chk  == check_url(url, answer)
           base == [NewCall EXCEPT !.url = url, !.start_index = start_index,
                                   !.max_length = max_length,
                                   !.safe = is_safe_url(url, answer),
                                   !.ip = chk.ip,
                                   !.resolve_exc = chk.resolve_exc,
                                   !.lookups = chk.lookups,
                                   !.cached = Resolved(url),
                                   !.prior = PriorCall(c, url),
                                   !.expired = ExpiredCall(c, url),
                                   !.fetched_age = FetchedAge(c, url)]
       IN  IF ~ base.safe
           THEN /\ calls' = [calls EXCEPT ![c] =
                               [base EXCEPT !.pc = "done", !.result = SecurityBlock]]
                /\ UNCHANGED <<cache, timers, tasks>>
           ELSE CrawlUrlCall(c, base)
    /\ UNCHANGED <<config, notengine>>

\* web_fetch resumes when the shared future is done
Resume(c) ==
    /\ calls[c].pc = "await"
    /\ tasks[calls[c].fut].pc = "done"
    /\ calls' = [calls EXCEPT ![c].pc = "done",
                              ![c].result = Completed(tasks[calls[c].fut].outcome,
                                                      calls[c].start_index,
                                                      calls[c].max_length)]
    /\ UNCHANGED <<config, cache, timers, tasks, notengine>>

\* a cancellation that reaches the future the caller awaits: the task is
\* cancelled and its entry leaves the cache
Cancel_Unshielded(c) ==
    /\ calls[c].pc = "await"
    /\ Running(calls[c].fut)
    /\ calls' = [calls EXCEPT ![c].pc = "cancelled"]
    /\ tasks' = [tasks EXCEPT ![calls[c].fut].pc = "cancelled"]
    /\ cache' = CachePop(cache, calls[c].url)
    /\ UNCHANGED <<config, timers, notengine>>

\* the caller's task is cancelled while web_fetch awaits _crawl_url: the
\* wrapper awaits asyncio.shield(fut), so CancelledError is raised in the
\* caller only, and web_fetch's "except Exception" does not catch it
Cancel(c) ==
    /\ calls[c].pc = "await"
    /\ Running(calls[c].fut)
    /\ calls' = [calls EXCEPT ![c].pc = "cancelled"]
    /\ UNCHANGED <<config, cache, timers, tasks, notengine>>

\* the end of the task with a done-callback that arms no TTL timer
TaskDone_NoTimer(t, outcome, failed, step) ==
    LET key == tasks[t].url
    IN  /\ tasks' = [tasks EXCEPT ![t].pc = "done", ![t].outcome = outcome,
                                  ![t].failed = failed,
                                  ![t].steps = Append(tasks[t].steps, step)]
        /\ cache' = IF outcome.exc THEN CachePop(cache, key) ELSE cache
        /\ timers' = timers

\* the end of the task after its last step (the converter or the renderer,
\* entered in the task's record of the components it called) and
\* alru_cache._task_done_callback: an exception pops the key; a result arms
\* the TTL timer on the entry now under the key
TaskDone(t, outcome, failed, step) ==
    LET key == tasks[t].url
        i   == CacheIndex(key)
    IN  /\ tasks' = [tasks EXCEPT ![t].pc = "done", ![t].outcome = outcome,
                                  ![t].failed = failed,
                                  ![t].steps = Append(tasks[t].steps, step)]
        /\ IF outcome.exc
           THEN /\ cache' = CachePop(cache, key)
                /\ timers' = timers
           ELSE IF i /= 0
           THEN /\ cache' = [cache EXCEPT ![i].later_call = t]
                /\ timers' = timers \cup {[id |-> t, key |-> key, left |-> ttl]}
           ELSE /\ cache' = cache
                /\ timers' = timers

\* the probe waits until every task started before it has ended
RunProbe_InOrder(t, p) ==
    /\ tasks[t].pc = "probe"
    /\ \A u \in 1..(t - 1) : ~ Running(u)
    /\ LET r == Probe(tasks[t].url, p)
       IN  tasks' = [tasks EXCEPT ![t].pc = IF r[1] THEN "doc" ELSE "page",
                                  ![t].is_document = r[1],
                                  ![t].detected_type = r[2],
                                  ![t].probed = p,
                                  ![t].steps = Append(tasks[t].steps,
                                                      [op |-> "probe", arg |-> ""])]
    /\ UNCHANGED <<config, cache, timers, calls, notengine>>

\* _crawl_url of web_fetch2, phase A: the HEAD probe
RunProbe(t, p) ==
    /\ tasks[t].pc = "probe"
    /\ LET r == Probe(tasks[t].url, p)
       IN  tasks' = [tasks EXCEPT ![t].pc = IF r[1] THEN "doc" ELSE "page",
                                  ![t].is_document = r[1],
                                  ![t].detected_type = r[2],
                                  ![t].probed = p,
                                  ![t].steps = Append(tasks[t].steps,
                                                      [op |-> "probe", arg |-> ""])]
    /\ UNCHANGED <<config, cache, timers, calls, notengine>>

\* a document whose conversion failed is handed to the browser crawl as well
RunDocument_ThenRender(t, d) ==
    /\ tasks[t].pc = "doc"
    /\ IF DocFailed(d)
       THEN /\ tasks' = [tasks EXCEPT ![t].pc = "page",
                             ![t].steps = Append(tasks[t].steps,
                                 [op |-> "convert", arg |-> tasks[t].detected_type])]
            /\ UNCHANGED <<cache, timers>>
       ELSE TaskDone(t, Ret(process_with_markitdown(tasks[t].url,
                                                    tasks[t].detected_type, d)),
                     FALSE, [op |-> "convert", arg |-> tasks[t].detected_type])
    /\ UNCHANGED <<config, calls, notengine>>

\* _crawl_url of web_fetch2, phase B for a document:
\* _process_with_markitdown(url, detected_type)
RunDocument(t, d) ==
    /\ tasks[t].pc = "doc"
    /\ TaskDone(t, Ret(process_with_markitdown(tasks[t].url, tasks[t].detected_type, d)),
                DocFailed(d), [op |-> "convert", arg |-> tasks[t].detected_type])
    /\ UNCHANGED <<config, calls, notengine>>

\* what _crawl_url does with the crawler's answer
CrawlOutcome(r) ==
    CASE r.kind = "ok" -> Ret(r.text)
      [] r.kind = "raised" -> Raise(r.text)
      [] r.kind = "failed" ->
            IF variant = "web_fetch2" THEN Ret(Crawl4AIFailed(r.text))
            ELSE Raise(CrawlFailed(r.text))

\* _crawl_url: the browser crawl
RunRender(t, r) ==
    /\ tasks[t].pc = "page"
    /\ TaskDone(t, CrawlOutcome(r), r.kind /= "ok", [op |-> "render", arg |-> ""])
    /\ UNCHANGED <<config, calls, notengine>>

\* TickStep seconds pass: the call_later handles that are due run
\* cache.pop(key, None); age is the time since a task ended, counted up to
\* DocumentedTtl
Tick ==
    LET due == {tm \in timers : tm.left <= TickStep}
    IN  /\ timers' = {[tm EXCEPT !.left = tm.left - TickStep] : tm \in timers \ due}
        /\ cache' = SelectSeq(cache, LAMBDA e : e.key \notin {tm.key : tm \in due})
        /\ tasks' = [t \in CallIds |->
                       IF tasks[t].pc = "done"
                       THEN [tasks[t] EXCEPT !.age = Min(tasks[t].age + TickStep,
                                                         DocumentedTtl)]
                       ELSE tasks[t]]
        /\ UNCHANGED <<config, calls, notengine>>

----------------------------------------------------------------------------
(* The document converter: _process_with_markitdown, one action for each   *)
(* stretch of it between two awaits                                        *)

\* a conversion call before it is made; did is what the call has done so far
\* of creating the temporary file ("mktemp"), writing it, calling md.convert
\* and calling os.remove, session the state of its aiohttp.ClientSession
NoConv ==
    [pc |-> "idle", url |-> <<>>, hint |-> "", content_type |-> "", ext |-> "",
     temp_path |-> 0, result |-> <<>>, remove_exc |-> FALSE, did |-> {},
     session |-> "none",
     seen |-> [get_exc |-> FALSE, status |-> 0, ctype |-> "",
               write_exc |-> FALSE, convert |-> Ret(<<>>)]]

\* mimetypes.guess_extension(content_type), "" for None
guess_extension(content_type) ==
    CASE content_type = "text/html" -> ".html"
      [] content_type = "application/octet-stream" -> ".bin"
      [] content_type = "application/zip" -> ".zip"
      [] OTHER -> ""

\* the tokens that start with a dot
DotTokens == {".pdf", ".PDF", ".jsp", ".docx", ".xlsx", ".pptx"}

\* the last position of tok in seq, 0 when absent
LastIndexOf(seq, tok) ==
    IF \E i \in 1..Len(seq) : seq[i] = tok
    THEN CHOOSE i \in 1..Len(seq) :
            seq[i] = tok /\ \A j \in (i + 1)..Len(seq) : seq[j] /= tok
    ELSE 0

\* the first position of tok in seq, Len(seq) + 1 when absent
FirstIndexOf(seq, tok) ==
    IF \E i \in 1..Len(seq) : seq[i] = tok
    THEN CHOOSE i \in 1..Len(seq) :
            seq[i] = tok /\ \A j \in 1..(i - 1) : seq[j] /= tok
    ELSE Len(seq) + 1

\* url.split("/")[-1].split("?")[0]; the scheme token ends with "/"
UrlFilename(url) ==
    LET cut  == IF LastIndexOf(url, "/") /= 0 THEN LastIndexOf(url, "/")
                ELSE IF Len(url) >= 1 /\ url[1] \in {"http://", "https://"} THEN 1
                ELSE 0
        last == SubSeq(url, cut + 1, Len(url))
    IN  SubSeq(last, 1, FirstIndexOf(last, "?") - 1)

\* "." + tok.split(".")[-1] of a host name token
HostSuffix(tok) ==
    CASE tok \in {"a.example", "b.example", "c.example"} -> ".example"
      [] tok = "169.254.169.254" -> ".254"
      [] OTHER -> ""

\* "." + filename.split(".")[-1] if "." in filename, "" otherwise
UrlExt(url) ==
    LET filename == UrlFilename(url)
        n == Len(filename)
    IN  IF n = 0 THEN ""
        ELSE IF filename[n] \in DotTokens THEN filename[n]
        ELSE HostSuffix(filename[n])

\* the suffix of the temporary file: table, guess, URL, default
ChooseExt(url, content_type) ==
    IF content_type \in DOMAIN MIME_TO_EXT THEN MIME_TO_EXT[content_type]
    ELSE IF guess_extension(content_type) /= "" THEN guess_extension(content_type)
    ELSE IF UrlExt(url) /= "" THEN UrlExt(url)
    ELSE ".tmp"

\* the paths of the files on disk
Paths == {f.path : f \in files}

\* the path NamedTemporaryFile picks: one that names no file
FreshPath == CHOOSE n \in 1..(Cardinality(files) + 1) : n \notin Paths

\* _process_with_markitdown(url, content_type) is called and awaits session.get
DocStart(k, url, content_type) ==
    /\ convs[k].pc = "idle"
    /\ IF k = 1 THEN TRUE ELSE convs[k - 1].pc /= "idle"
    /\ convs' = [convs EXCEPT ![k] = [NoConv EXCEPT !.pc = "get", !.url = url,
                                         !.session = "open",
                                         !.hint = content_type,
                                         !.content_type = content_type]]
    /\ UNCHANGED <<config, notdoc, files>>

\* the response is taken for a download whatever its status
DocGet_AnyStatus(k, g) ==
    /\ convs[k].pc = "get"
    /\ LET cv == convs[k]
           ct == IF cv.content_type = "" THEN g.ctype ELSE cv.content_type
       IN  convs' = [convs EXCEPT ![k] =
              IF g.exc
              THEN [cv EXCEPT !.pc = "finally", !.session = "closed", !.seen.get_exc = TRUE,
                              !.result = MarkItDownFailed(<<"ClientError">>)]
              ELSE [cv EXCEPT !.pc = "mktemp", !.seen.status = g.status,
                              !.seen.ctype = g.ctype,
                              !.content_type = ct, !.ext = ChooseExt(cv.url, ct)]]
    /\ UNCHANGED <<config, notdoc, files>>

\* the response arrives and its content type replaces the one passed in
DocGet_ResponseType(k, g) ==
    /\ convs[k].pc = "get"
    /\ LET cv == convs[k]
       IN  convs' = [convs EXCEPT ![k] =
              IF g.exc
              THEN [cv EXCEPT !.pc = "finally", !.session = "closed", !.seen.get_exc = TRUE,
                              !.result = MarkItDownFailed(<<"ClientError">>)]
              ELSE IF g.status /= 200
              THEN [cv EXCEPT !.pc = "finally", !.session = "closed", !.seen.status = g.status,
                              !.seen.ctype = g.ctype,
                              !.result = DownloadFailed(g.status)]
              ELSE [cv EXCEPT !.pc = "mktemp", !.seen.status = g.status,
                              !.seen.ctype = g.ctype,
                              !.content_type = g.ctype,
                              !.ext = ChooseExt(cv.url, g.ctype)]]
    /\ UNCHANGED <<config, notdoc, files>>

\* the response arrives or session.get raises: a status other than 200
\* returns the download failure, else the content type and suffix are chosen
DocGet(k, g) ==
    /\ convs[k].pc = "get"
    /\ LET cv == convs[k]
           ct == IF cv.content_type = "" THEN g.ctype ELSE cv.content_type
       IN  convs' = [convs EXCEPT ![k] =
              IF g.exc
              THEN [cv EXCEPT !.pc = "finally", !.session = "closed", !.seen.get_exc = TRUE,
                              !.result = MarkItDownFailed(<<"ClientError">>)]
              ELSE IF g.status /= 200
              THEN [cv EXCEPT !.pc = "finally", !.session = "closed", !.seen.status = g.status,
                              !.seen.ctype = g.ctype,
                              !.result = DownloadFailed(g.status)]
              ELSE [cv EXCEPT !.pc = "mktemp", !.seen.status = g.status,
                              !.seen.ctype = g.ctype,
                              !.content_type = ct, !.ext = ChooseExt(cv.url, ct)]]
    /\ UNCHANGED <<config, notdoc, files>>

\* tempfile.NamedTemporaryFile(delete=False, suffix=ext) in the executor, then
\* temp_path = temp_file.name; an OSError leaves temp_path None
DocMkTemp(k, ok) ==
    /\ convs[k].pc = "mktemp"
    /\ IF ok
       THEN /\ files' = files \cup {[path |-> FreshPath, suffix |-> convs[k].ext,
                                     written |-> FALSE, owner |-> k]}
            /\ convs' = [convs EXCEPT ![k].pc = "write", ![k].temp_path = FreshPath,
                                      ![k].did = convs[k].did \cup {"mktemp"}]
       ELSE /\ files' = files
            /\ convs' = [convs EXCEPT ![k].pc = "finally",
                                      ![k].session = "closed",
                                      ![k].seen.write_exc = TRUE,
                                      ![k].did = convs[k].did \cup {"mktemp"},
                                      ![k].result = MarkItDownFailed(<<"OSError">>)]
    /\ UNCHANGED <<config, notdoc>>

\* the body is written and the conversion called inside the session's block
DocWrite_SessionOpen(k, ok) ==
    /\ convs[k].pc = "write"
    /\ IF ok
       THEN /\ files' = {IF f.path = convs[k].temp_path
                         THEN [f EXCEPT !.written = TRUE] ELSE f : f \in files}
            /\ convs' = [convs EXCEPT ![k].pc = "convert",
                                      ![k].did = convs[k].did \cup {"write"}]
       ELSE /\ files' = files
            /\ convs' = [convs EXCEPT ![k].pc = "finally",
                                      ![k].session = "closed",
                                      ![k].seen.write_exc = TRUE,
                                      ![k].did = convs[k].did \cup {"write"},
                                      ![k].result = MarkItDownFailed(<<"OSError">>)]
    /\ UNCHANGED <<config, notdoc>>

\* the body is streamed into the file; an error of the stream or of the disk
\* goes to the except clause; leaving the "async with" blocks closes the
\* session either way
DocWrite(k, ok) ==
    /\ convs[k].pc = "write"
    /\ IF ok
       THEN /\ files' = {IF f.path = convs[k].temp_path
                         THEN [f EXCEPT !.written = TRUE] ELSE f : f \in files}
            /\ convs' = [convs EXCEPT ![k].pc = "convert",
                                      ![k].session = "closed",
                                      ![k].did = convs[k].did \cup {"write"}]
       ELSE /\ files' = files
            /\ convs' = [convs EXCEPT ![k].pc = "finally",
                                      ![k].session = "closed",
                                      ![k].seen.write_exc = TRUE,
                                      ![k].did = convs[k].did \cup {"write"},
                                      ![k].result = MarkItDownFailed(<<"OSError">>)]
    /\ UNCHANGED <<config, notdoc>>

\* run_sync_convert(temp_path) in the executor returns the text or raises
DocConvert(k, cvt) ==
    /\ convs[k].pc = "convert"
    /\ convs' = [convs EXCEPT ![k].pc = "finally", ![k].seen.convert = cvt,
                   ![k].did = convs[k].did \cup {"convert"},
                   ![k].result = IF cvt.exc THEN MarkItDownFailed(cvt.val)
                                 ELSE DocumentContent(convs[k].content_type, cvt.val)]
    /\ UNCHANGED <<config, notdoc, files>>

\* finally: nothing to clean without temp_path, else os.path.exists
DocCleanupExists(k) ==
    /\ convs[k].pc = "finally"
    /\ convs' = [convs EXCEPT ![k].pc =
                    IF convs[k].temp_path /= 0 /\ convs[k].temp_path \in Paths
                    THEN "remove" ELSE "returned"]
    /\ UNCHANGED <<config, notdoc, files>>

\* os.remove(temp_path); what it raises is swallowed by "except: pass"
DocRemove(k, ok) ==
    /\ convs[k].pc = "remove"
    /\ files' = IF ok THEN {f \in files : f.path /= convs[k].temp_path} ELSE files
    /\ convs' = [convs EXCEPT ![k].pc = "returned", ![k].remove_exc = ~ok,
                              ![k].did = convs[k].did \cup {"remove"}]
    /\ UNCHANGED <<config, notdoc>>

\* the URLs, hinted types and responses the converter is explored with
DocUrls == {UrlB, UrlC, UrlQ}
DocHints == {"", "application/pdf"}
GetAnswers ==
    {[exc |-> TRUE, status |-> 0, ctype |-> ""]} \cup
    [exc : {FALSE}, status : {200, 500}, ctype : {"", "application/pdf", "text/html"}]

\* the name of the temporary file: tempfile's directory and prefix, the
\* random part and the suffix
TempName(path, ext) == <<"/tmp/tmp", IntStr(path), ext>>

\* what run_sync_convert(path) returns or raises: a text, or an exception
\* whose str() is the converter's own message or one that names the file it
\* was given, as the str() of an OSError and "Could not convert '<path>' to
\* Markdown" do
ConvertAnswers(path, ext) ==
    {Ret(<<"a", "b", "c">>), Ret(<<>>), Raise(<<"PdfError">>),
     Raise(<<"Could not convert '">> \o TempName(path, ext) \o <<"'">>)}

\* the files advanced_read_file is called on
FilePaths == {"a.pdf", "b.pdf"}

\* the caller of the pagination before its first call
NoPager ==
    [pc |-> "idle", tool |-> "none", text |-> <<>>, start_index |-> 0,
     max_length |-> 0, out |-> <<>>, prev |-> <<>>, again |-> FALSE,
     n |-> 0, walk |-> FALSE, got |-> <<>>]

InitEngine ==
    /\ capacity = maxsize
    /\ cache = <<>>
    /\ timers = {}
    /\ tasks = [t \in CallIds |-> NoTask]
    /\ calls = [c \in CallIds |-> NewCall]

InitDocs ==
    /\ convs = [k \in ConvIds |-> NoConv]
    /\ files = {}

InitPager == pager = NoPager

\* the number of MemosClient calls explored
MemoPosts == 3
PostIds == 1..MemoPosts

\* a call of one of MemosClient's methods before it is made
NoPost ==
    [pc |-> "idle", method |-> "", session |-> 0, created_new_session |-> FALSE,
     seen |-> "", raised |-> FALSE,
     result |-> [has_code |-> FALSE, code |-> 0, message |-> <<>>, data |-> {}],
     history |-> <<>>, memory |-> {}]

\* aiohttp.ClientSession(), with who created it
NewSession(origin) == [closed |-> FALSE, origin |-> origin, closed_by |-> ""]

\* MemosClient.__init__ with the session argument at its default None
NoSession ==
    /\ self_session = 0
    /\ sessions = <<>>

\* MemosClient.__init__ with a session the caller passes in
InjectedSession ==
    /\ self_session = 1
    /\ sessions = <<NewSession("caller")>>

MemosIdle ==
    /\ entered = FALSE
    /\ posts = [p \in PostIds |-> NoPost]

InitMemos == NoSession /\ MemosIdle

\* the tasks that use LogContext, the deepest nesting of blocks in a task and
\* the most tokens ContextVar.set returns in a run
CtxTasks == 2
MaxDepth == 2
MaxTokens == 8
TaskIds == 1..CtxTasks

\* the context variables in the order __enter__ and __exit__ go through
\* them, and their defaults
CtxNames == <<"trace_id", "user_name", "user_type", "api_path", "env">>
CtxDefault ==
    [trace_id |-> "no-trace-id", user_name |-> "system", user_type |-> "service",
     api_path |-> "/", env |-> "prod"]

\* the LogContext objects and the attributes __init__ gave them, "" for
\* None; the second was built without a trace_id and got a uuid4
Instances == {1, 2}
Attrs(i) ==
    IF i = 1
    THEN [trace_id |-> "t-1", user_name |-> "alice", user_type |-> "",
          api_path |-> "", env |-> ""]
    ELSE [trace_id |-> "uuid-2", user_name |-> "", user_type |-> "admin",
          api_path |-> "/chat", env |-> "dev"]

\* no task has set a variable, no block is open, _tokens = {} in each object
InitCtx ==
    /\ ctx = [t \in TaskIds |-> [v \in DOMAIN CtxDefault |-> "MISSING"]]
    /\ blocks = [t \in TaskIds |-> <<>>]
    /\ self_tokens = [i \in Instances |-> [v \in DOMAIN CtxDefault |-> 0]]
    /\ used = {}
    /\ minted = <<>>

\* an advanced_read_file call before it is made
NoReader ==
    [pc |-> "idle", file_path |-> "", resolved |-> "", waited |-> FALSE,
     run |-> 0, fut |-> 0,
     converter |-> 0, result |-> <<>>]

\* AdvancedFileMiddleware.__init__ and the empty cache of _convert_file_cached
InitMwState ==
    /\ md_converter = 0
    /\ md_converter_lock = [locked |-> FALSE, waiters |-> <<>>]
    /\ init_log = <<>>
    /\ readers = [r \in ReaderIds |-> NoReader]
    /\ file_cache = <<>>
    /\ file_tasks = <<>>

\* the middleware as the agent builds it, over a FilesystemBackend
InitMw ==
    /\ backend = "FilesystemBackend"
    /\ InitMwState

InitDoc ==
    /\ variant = "web_fetch2"
    /\ InitEngine
    /\ InitDocs
    /\ InitPager
    /\ InitMemos
    /\ InitCtx
    /\ InitMw

NextDoc ==
    \/ \E k \in ConvIds, url \in DocUrls, ct \in DocHints : DocStart(k, url, ct)
    \/ \E k \in ConvIds, g \in GetAnswers : DocGet(k, g)
    \/ \E k \in ConvIds, ok \in BOOLEAN : DocMkTemp(k, ok)
    \/ \E k \in ConvIds, ok \in BOOLEAN : DocWrite(k, ok)
    \/ \E k \in ConvIds :
          \E cvt \in ConvertAnswers(convs[k].temp_path, convs[k].ext) :
             DocConvert(k, cvt)
    \/ \E k \in ConvIds : DocCleanupExists(k)
    \/ \E k \in ConvIds, ok \in BOOLEAN : DocRemove(k, ok)

SpecDoc == InitDoc /\ [][NextDoc]_vars

\* the converter, taken step by step, returns what process_with_markitdown
\* computes from the same answers
DocAgrees ==
    \A k \in ConvIds :
        convs[k].pc = "returned" =>
            convs[k].result =
                process_with_markitdown(convs[k].url, convs[k].hint, convs[k].seen)

----------------------------------------------------------------------------
(* Pagination: process_content of the two web_fetch modules (the same code) *)
(* and the pagination of advanced_read_file, read page by page by a caller  *)

\* the markers of advanced_read_file
EmptyFile ==
    <<"<system-reminder>File exists but content is empty (or parsing returned no text).</system-reminder>">>

FileEndOfContent(full_len) ==
    <<"<system-reminder>End of content. Total length: ", IntStr(full_len),
      ".</system-reminder>">>

FileHeader(file_path) == <<"### File Content: ", file_path, "\n">>

FileEndFooter == <<"<system-reminder>End of content.</system-reminder>">>

\* not full_content.strip()
IsBlank(full_content) ==
    \A i \in 1..Len(full_content) : full_content[i] \in {" ", "\n", "\t"}

\* steps 3 to 5 of advanced_read_file(file_path, offset, limit) on the
\* converted text
read_page(file_path, full_content, offset, limit) ==
    IF full_content = <<>> \/ IsBlank(full_content) THEN EmptyFile
    ELSE LET full_len == Len(full_content)
         IN  IF offset >= full_len THEN FileEndOfContent(full_len)
             ELSE LET end_index == Min(offset + limit, full_len)
                      result_text == PySlice(full_content, offset, end_index)
                      footer == IF end_index < full_len
                                THEN TruncatedMarker(end_index)
                                ELSE FileEndFooter
                  IN  FileHeader(file_path) \o result_text \o footer

\* the page a tool returns
Paginate(tool, text, start_index, max_length) ==
    IF tool = "advanced_read_file"
    THEN read_page("/docs/a.pdf", text, start_index, max_length)
    ELSE process_content(text, start_index, max_length)

\* the texts read: the first n characters of Alphabet
Alphabet == <<"a", "b", "c", "d", "e", "f", "g", "h">>
\* texts of more than one line
LineTexts == {<<"a", "\n", "b">>, <<"a", "b", "\n", "c">>}
Texts == {SubSeq(Alphabet, 1, n) : n \in 0..MaxLen} \cup LineTexts
Offsets == 0..(MaxLen + 1)
Lengths == 1..(MaxLen + 1) \cup {6000}
Tools == {"process_content", "advanced_read_file"}

\* int(s) of the decimal string s
StrInt(s) == CHOOSE n \in (0 - 2 * MaxPages - 2)..(2 * MaxLen + 2) : IntStr(n) = s

\* whether a page carries the truncation marker, and the offset it names
HasTruncated(out) ==
    \E i \in 1..Len(out) : out[i] = TruncatedMarker(0)[1]

NamedOffset(out) ==
    StrInt(out[(CHOOSE i \in 1..Len(out) : out[i] = TruncatedMarker(0)[1]) + 1])

\* what the caller keeps of a page of process_content: nothing of a page that
\* is a marker, else the tokens before the truncation marker
TextPart(out) ==
    IF out = NoContent \/ (out /= <<>> /\ out[1] = EndOfContent(0)[1]) THEN <<>>
    ELSE IF HasTruncated(out)
    THEN SubSeq(out, 1, (CHOOSE i \in 1..Len(out) : out[i] = TruncatedMarker(0)[1]) - 1)
    ELSE out

\* the caller asks for a page
PageFirst(tool, text, start_index, max_length) ==
    /\ pager.pc = "idle"
    /\ pager' = [NoPager EXCEPT !.pc = "called", !.tool = tool, !.text = text,
                    !.start_index = start_index, !.max_length = max_length,
                    !.out = Paginate(tool, text, start_index, max_length),
                    !.n = 1, !.walk = (start_index = 0),
                    !.got = TextPart(Paginate(tool, text, start_index, max_length))]
    /\ UNCHANGED <<config, notpage>>

\* the caller asks for the same page again
PageAgain ==
    /\ pager.pc = "called"
    /\ ~ pager.again
    /\ pager' = [pager EXCEPT !.prev = pager.out, !.again = TRUE,
                    !.out = Paginate(pager.tool, pager.text, pager.start_index,
                                     pager.max_length)]
    /\ UNCHANGED <<config, notpage>>

\* the caller asks for the page the truncation marker names
PageNext ==
    /\ pager.pc = "called"
    /\ pager.n < MaxPages
    /\ HasTruncated(pager.out)
    /\ LET next == NamedOffset(pager.out)
       IN  pager' = [pager EXCEPT !.start_index = next, !.again = FALSE,
                        !.prev = <<>>, !.n = pager.n + 1,
                        !.out = Paginate(pager.tool, pager.text, next,
                                         pager.max_length),
                        !.got = pager.got \o
                                TextPart(Paginate(pager.tool, pager.text, next,
                                                  pager.max_length))]
    /\ UNCHANGED <<config, notpage>>

InitPage ==
    /\ variant = "web_fetch2"
    /\ InitEngine
    /\ InitDocs
    /\ InitPager
    /\ InitMemos
    /\ InitCtx
    /\ InitMw

NextPage ==
    \/ \E tool \in Tools, text \in Texts, start_index \in Offsets,
          max_length \in Lengths : PageFirst(tool, text, start_index, max_length)
    \/ PageAgain
    \/ PageNext

SpecPage == InitPage /\ [][NextPage]_vars

\* FetchInput declares start_index and max_length as int with no range:
\* the values below zero, zero and above that web_fetch passes on
RangeOffsets == (0 - 2)..(MaxLen + 1)
RangeLengths == (0 - 2)..2

NextRange ==
    \/ \E text \in Texts, start_index \in RangeOffsets, max_length \in RangeLengths :
          PageFirst("process_content", text, start_index, max_length)
    \/ PageAgain
    \/ PageNext

SpecRange == InitPage /\ [][NextRange]_vars

----------------------------------------------------------------------------
(* Specifications of the engine *)

\* the answers the engine is explored with
EngineRenderAnswers ==
    {r \in RenderAnswers : r.text \in {<<"a", "b", "c">>, <<"net::ERR_TIMED_OUT">>,
                                       <<"BrowserType.launch">>}}
EngineDocAnswers == {d \in DocAnswers : ~ d.convert.exc}
EngineProbeAnswers == {p \in ProbeAnswers : p.status = 200 /\ p.ctype = ""}

\* (start_index, max_length) pairs the callers pass
DefaultParams == <<0, 6000>>
Params == {DefaultParams, <<1, 2>>}

Init ==
    /\ variant \in {"web_fetch", "web_fetch2"}
    /\ InitEngine
    /\ InitDocs
    /\ InitPager
    /\ InitMemos
    /\ InitCtx
    /\ InitMw

\* many calls, each with the default arguments and a public address
Next ==
    \/ \E c \in 1..EngineCalls, url \in {UrlA, UrlB} :
          WebFetch(c, url, DefaultParams[1], DefaultParams[2], Ret(PublicIp))
    \/ \E c \in CallIds : Resume(c)
    \/ \E t \in CallIds, p \in EngineProbeAnswers : RunProbe(t, p)
    \/ \E t \in CallIds, d \in EngineDocAnswers : RunDocument(t, d)
    \/ \E t \in CallIds, r \in EngineRenderAnswers : RunRender(t, r)
    \/ Tick

Spec == Init /\ [][Next]_vars

\* few calls, over every URL, resolver answer and argument pair
NextInputs ==
    \/ \E c \in 1..InputCalls, url \in AllUrls \ {UrlC}, p \in Params, a \in DnsAnswers :
          WebFetch(c, url, p[1], p[2], a)
    \/ \E c \in CallIds : Resume(c)
    \/ \E t \in CallIds, p \in EngineProbeAnswers : RunProbe(t, p)
    \/ \E t \in CallIds, d \in EngineDocAnswers : RunDocument(t, d)
    \/ \E t \in CallIds, r \in EngineRenderAnswers : RunRender(t, r)
    \/ Tick

SpecInputs == Init /\ [][NextInputs]_vars

\* more calls, every fetch succeeding
NextWarm ==
    \/ \E c \in CallIds, url \in {UrlA, UrlB} :
          WebFetch(c, url, DefaultParams[1], DefaultParams[2], Ret(PublicIp))
    \/ \E c \in CallIds : Resume(c)
    \/ \E t \in CallIds, p \in EngineProbeAnswers : RunProbe(t, p)
    \/ \E t \in CallIds, d \in {x \in EngineDocAnswers : ~ DocFailed(x)} : RunDocument(t, d)
    \/ \E t \in CallIds, r \in {x \in EngineRenderAnswers : x.kind = "ok"} : RunRender(t, r)
    \/ Tick

SpecWarm == Init /\ [][NextWarm]_vars

\* the cache with room for one entry more, so that the order of the entries
\* decides which one is dropped
InitLru ==
    /\ variant = "web_fetch"
    /\ capacity = maxsize + 1
    /\ cache = <<>>
    /\ timers = {}
    /\ tasks = [t \in CallIds |-> NoTask]
    /\ calls = [c \in CallIds |-> NewCall]
    /\ InitDocs
    /\ InitPager
    /\ InitMemos
    /\ InitCtx
    /\ InitMw

NextLru ==
    \/ \E c \in 1..LruCalls, url \in Urls :
          WebFetch(c, url, DefaultParams[1], DefaultParams[2], Ret(PublicIp))
    \/ \E c \in CallIds : Resume(c)
    \/ \E t \in CallIds, r \in {x \in EngineRenderAnswers : x.text = <<"a", "b", "c">>} :
          RunRender(t, r)
    \/ Tick

SpecLru == InitLru /\ [][NextLru]_vars

\* the number of calls SpecRoute explores
RouteCalls == 1

\* the Content-Type headers of the HEAD response, split at ";"; <<>> when
\* the header is absent
ProbeHeaders ==
    {<<>>, <<"text/html">>, <<" Text/HTML", ";", " charset=utf-8">>,
     <<"Application/PDF">>, <<"application/pdf", ";", " charset=binary">>,
     <<"application/octet-stream">>}

\* str.strip() of a token
Strip(tok) ==
    CASE tok = " text/html" -> "text/html"
      [] OTHER -> tok

\* resp.headers.get('Content-Type', '').lower().split(';')[0].strip()
ParseContentType(header) ==
    IF header = <<>> \/ header[1] = ";" THEN "" ELSE Strip(Lower(header[1]))

\* the HEAD responses, and the probe answer read from one
ProbeResponses ==
    {[exc |-> TRUE, status |-> 0, header |-> <<>>]} \cup
    [exc : {FALSE}, status : {200, 403, 404, 405}, header : ProbeHeaders]

ProbeOf(resp) ==
    [exc |-> resp.exc, status |-> resp.status,
     ctype |-> ParseContentType(resp.header)]

RouteUrls == {UrlA, UrlB, UrlC, UrlD}

InitRoute ==
    /\ variant = "web_fetch2"
    /\ InitEngine
    /\ InitDocs
    /\ InitPager
    /\ InitMemos
    /\ InitCtx
    /\ InitMw

\* web_fetch2 over every answer of the probe
NextRoute ==
    \/ \E c \in 1..RouteCalls, url \in RouteUrls :
          WebFetch(c, url, DefaultParams[1], DefaultParams[2], Ret(PublicIp))
    \/ \E c \in CallIds : Resume(c)
    \/ \E t \in CallIds, resp \in ProbeResponses : RunProbe(t, ProbeOf(resp))
    \/ \E t \in CallIds, d \in EngineDocAnswers : RunDocument(t, d)
    \/ \E t \in CallIds, r \in EngineRenderAnswers : RunRender(t, r)

SpecRoute == InitRoute /\ [][NextRoute]_vars

\* the number of calls SpecCancel explores
CancelCalls == 3

\* callers that may be cancelled while they wait; every task that is
\* scheduled keeps running, and every caller that waits is resumed
NextCancel ==
    \/ \E c \in 1..CancelCalls, url \in {UrlA, UrlB} :
          WebFetch(c, url, DefaultParams[1], DefaultParams[2], Ret(PublicIp))
    \/ \E c \in CallIds : Cancel(c)
    \/ \E c \in CallIds : Resume(c)
    \/ \E t \in CallIds, p \in EngineProbeAnswers : RunProbe(t, p)
    \/ \E t \in CallIds, d \in EngineDocAnswers : RunDocument(t, d)
    \/ \E t \in CallIds, r \in EngineRenderAnswers : RunRender(t, r)

SpecCancel ==
    /\ InitRoute
    /\ [][NextCancel]_vars
    /\ WF_vars(\E t \in CallIds, p \in EngineProbeAnswers : RunProbe(t, p))
    /\ WF_vars(\E t \in CallIds, d \in EngineDocAnswers : RunDocument(t, d))
    /\ WF_vars(\E t \in CallIds, r \in EngineRenderAnswers : RunRender(t, r))
    /\ WF_vars(\E c \in CallIds : Resume(c))

----------------------------------------------------------------------------
(* The file middleware: advanced_read_file over the lazily created         *)
(* converter and the cached _convert_file_cached, one action for each      *)
(* stretch between two awaits                                              *)

FileNotFound(file_path) == <<"<error>", "File '", file_path, "' not found.", "</error>">>

NotAFile(file_path) == <<"<error>", "Path '", file_path, "' is not a file.", "</error>">>

InvalidPath(e) ==
    <<"<error>", "Invalid path or security violation: ">> \o e \o <<"</error>">>

UnsupportedBackend(name) ==
    <<"<error>", "This tool requires a FilesystemBackend. Current backend: ",
      name, "</error>">>

\* what _resolve_path and the checks of the resolved path find: a regular
\* file, no file, something that is not a file, or a ValueError
ResolveAnswers == {"ok", "missing", "not_a_file", "value_error"}

\* the branch _process_file_sync takes: the backend is tested before the path
resolved_as(res) ==
    IF backend /= "FilesystemBackend" THEN "unsupported_backend" ELSE res

\* _process_file_sync(file_path, offset, limit): the error marker, or <<>>
\* for a resolved path
process_file_sync(file_path, res) ==
    IF backend /= "FilesystemBackend" THEN UnsupportedBackend(backend)
    ELSE CASE res = "missing" -> FileNotFound(file_path)
           [] res = "not_a_file" -> NotAFile(file_path)
           [] res = "value_error" -> InvalidPath(<<"Path traversal not allowed">>)
           [] OTHER -> <<>>

FailedToConvert(e) ==
    <<"<error>", "Failed to convert file content: ">> \o e \o <<"</error>">>

\* the message of the RuntimeError _convert_file_cached raises
ProcessingFailed(e) == <<"MarkItDown processing failed: ">> \o e

\* asyncio.Lock.release(): unlock and wake the first waiter
Release(lock) ==
    [locked |-> FALSE,
     waiters |-> IF lock.waiters = <<>> THEN <<>>
                 ELSE [lock.waiters EXCEPT ![1].woken = TRUE]]

\* what the caller of _convert_file_cached gets from a finished task
ReadOutcome(rd, outcome) ==
    IF outcome.exc THEN FailedToConvert(outcome.val)
    ELSE read_page(rd.file_path, outcome.val, 0, DefaultLimit)

\* the position of path's entry in the cache of conversions, 0 if none
FileIndex(path) ==
    IF \E i \in 1..Len(file_cache) : file_cache[i].key = path
    THEN CHOOSE i \in 1..Len(file_cache) : file_cache[i].key = path
    ELSE 0

\* the task under path's entry, 0 if none
FileEntry(path) == IF FileIndex(path) = 0 THEN 0 ELSE file_cache[FileIndex(path)].fut

\* a task of _convert_file_cached as alru_cache creates it; left tells how
\* its entry left the cache
NewFileTask(path) ==
    [file_path |-> path, st |-> "start", outcome |-> Ret(<<>>), converter |-> 0,
     left |-> ""]

\* await self._convert_file_cached(abs_path_str) up to its first suspension,
\* by the reader rd that found the converter mc: a resolved entry is
\* returned, a pending one awaited, both moved to the end; a miss creates
\* the task and its entry and drops the first entry past maxsize
ConvertFileCached(r, rd, mc) ==
    LET i     == FileIndex(rd.file_path)
        t     == FileEntry(rd.file_path)
        went  == [rd EXCEPT !.converter = mc]
        new   == Len(file_tasks) + 1
        added == Append(file_cache, [key |-> rd.file_path, fut |-> new])
        begun == Append(file_tasks, NewFileTask(rd.file_path))
    IN  IF t /= 0
        THEN /\ file_cache' = MoveToEnd(file_cache, i)
             /\ file_tasks' = file_tasks
             /\ readers' = [readers EXCEPT ![r] =
                   IF file_tasks[t].st = "done"
                   THEN [went EXCEPT !.pc = "done", !.fut = t,
                                     !.result = ReadOutcome(rd, file_tasks[t].outcome)]
                   ELSE [went EXCEPT !.pc = "await", !.fut = t]]
        ELSE /\ IF Len(added) > capacity
                THEN /\ file_cache' = Tail(added)
                     /\ file_tasks' = [begun EXCEPT ![Head(added).fut].left = "capacity"]
                ELSE /\ file_cache' = added
                     /\ file_tasks' = begun
             /\ readers' = [readers EXCEPT ![r] =
                   [went EXCEPT !.pc = "await", !.fut = new]]

\* the holder of the gate finds no converter and awaits
\* asyncio.to_thread(self._init_markitdown)
StartInit(r, rd, lock) ==
    /\ md_converter_lock' = lock
    /\ init_log' = Append(init_log, [by |-> r, st |-> "running"])
    /\ readers' = [readers EXCEPT ![r] =
                      [rd EXCEPT !.pc = "init", !.run = Len(init_log) + 1]]
    /\ UNCHANGED <<md_converter, file_cache, file_tasks>>

\* advanced_read_file(file_path) is called and awaits _process_file_sync
ReadFile(r, file_path) ==
    /\ readers[r].pc = "idle"
    /\ IF r = 1 THEN TRUE ELSE readers[r - 1].pc /= "idle"
    /\ readers' = [readers EXCEPT ![r] =
                      [NoReader EXCEPT !.pc = "resolve", !.file_path = file_path]]
    /\ UNCHANGED <<config, notmw, md_converter, md_converter_lock, init_log,
                   file_cache, file_tasks>>

\* the path is taken for resolved whatever _process_file_sync returned
ReadResolve_NoEarlyReturn(r, res) ==
    /\ readers[r].pc = "resolve"
    /\ LET err  == process_file_sync(readers[r].file_path, res)
           rd   == [readers[r] EXCEPT !.resolved = resolved_as(res)]
           lock == md_converter_lock
       IN  IF md_converter /= 0
           THEN /\ ConvertFileCached(r, rd, md_converter)
                /\ UNCHANGED <<md_converter, md_converter_lock, init_log>>
           ELSE IF ~ lock.locked /\ lock.waiters = <<>>
           THEN StartInit(r, rd, [lock EXCEPT !.locked = TRUE])
           ELSE /\ md_converter_lock' =
                      [lock EXCEPT !.waiters = Append(lock.waiters,
                                                      [id |-> r, woken |-> FALSE])]
                /\ readers' = [readers EXCEPT ![r] =
                                  [rd EXCEPT !.pc = "wait", !.waited = TRUE]]
                /\ UNCHANGED <<md_converter, init_log, file_cache, file_tasks>>
    /\ UNCHANGED <<config, notmw>>

\* _process_file_sync returns: an error marker is returned as it is, else
\* _ensure_md_converter runs up to its first suspension: it returns when the
\* converter is there, takes the free gate, or queues behind its holder
ReadResolve(r, res) ==
    /\ readers[r].pc = "resolve"
    /\ LET err  == process_file_sync(readers[r].file_path, res)
           rd   == [readers[r] EXCEPT !.resolved = resolved_as(res)]
           lock == md_converter_lock
       IN  IF err /= <<>>
           THEN /\ readers' = [readers EXCEPT ![r] =
                      [rd EXCEPT !.pc = "done", !.result = err]]
                /\ UNCHANGED <<md_converter, md_converter_lock, init_log,
                               file_cache, file_tasks>>
           ELSE IF md_converter /= 0
           THEN /\ ConvertFileCached(r, rd, md_converter)
                /\ UNCHANGED <<md_converter, md_converter_lock, init_log>>
           ELSE IF ~ lock.locked /\ lock.waiters = <<>>
           THEN StartInit(r, rd, [lock EXCEPT !.locked = TRUE])
           ELSE /\ md_converter_lock' =
                      [lock EXCEPT !.waiters = Append(lock.waiters,
                                                      [id |-> r, woken |-> FALSE])]
                /\ readers' = [readers EXCEPT ![r] =
                                  [rd EXCEPT !.pc = "wait", !.waited = TRUE]]
                /\ UNCHANGED <<md_converter, init_log, file_cache, file_tasks>>
    /\ UNCHANGED <<config, notmw>>

\* a woken waiter takes the gate and starts _init_markitdown without
\* looking at md_converter again
LockGranted_NoRecheck(r) ==
    /\ readers[r].pc = "wait"
    /\ md_converter_lock.waiters /= <<>>
    /\ Head(md_converter_lock.waiters) = [id |-> r, woken |-> TRUE]
    /\ StartInit(r, readers[r],
                 [locked |-> TRUE, waiters |-> Tail(md_converter_lock.waiters)])
    /\ UNCHANGED <<config, notmw>>

\* a woken waiter takes the gate and checks md_converter again: with a
\* converter it leaves the gate and goes on, without one it starts
\* _init_markitdown
LockGranted(r) ==
    /\ readers[r].pc = "wait"
    /\ md_converter_lock.waiters /= <<>>
    /\ Head(md_converter_lock.waiters) = [id |-> r, woken |-> TRUE]
    /\ LET lock == [locked |-> TRUE, waiters |-> Tail(md_converter_lock.waiters)]
       IN  IF md_converter /= 0
           THEN /\ md_converter_lock' = Release(lock)
                /\ ConvertFileCached(r, readers[r], md_converter)
                /\ UNCHANGED <<md_converter, init_log>>
           ELSE StartInit(r, readers[r], lock)
    /\ UNCHANGED <<config, notmw>>

\* _init_markitdown returns a converter, which is stored, or raises, which
\* leaves md_converter as it was and ends advanced_read_file with the
\* conversion error; the gate is left either way
InitDone(r, ok) ==
    /\ readers[r].pc = "init"
    /\ md_converter_lock' = Release(md_converter_lock)
    /\ init_log' = [init_log EXCEPT ![readers[r].run].st =
                       IF ok THEN "ok" ELSE "raised"]
    /\ IF ok
       THEN /\ md_converter' = readers[r].run
            /\ ConvertFileCached(r, readers[r], readers[r].run)
       ELSE /\ md_converter' = md_converter
            /\ readers' = [readers EXCEPT ![r].pc = "done",
                              ![r].result = FailedToConvert(<<"InitError">>)]
            /\ UNCHANGED <<file_cache, file_tasks>>
    /\ UNCHANGED <<config, notmw>>

\* the task of _convert_file_cached starts: its own _ensure_md_converter
\* returns at once when the converter is there and the conversion goes to
\* the executor; "gate" is the task entering the gate for want of one
ConvertStart(t) ==
    /\ t \in 1..Len(file_tasks)
    /\ file_tasks[t].st = "start"
    /\ file_tasks' = [file_tasks EXCEPT
                         ![t].st = IF md_converter /= 0 THEN "executor" ELSE "gate",
                         ![t].converter = md_converter]
    /\ UNCHANGED <<config, notmw, md_converter, md_converter_lock, init_log,
                   readers, file_cache>>

\* self.md_converter.convert returns or raises: a text stays in the cache,
\* an exception is raised as RuntimeError and its entry leaves the cache
ConvertDone(t, cvt) ==
    /\ t \in 1..Len(file_tasks)
    /\ file_tasks[t].st = "executor"
    /\ LET path == file_tasks[t].file_path
           ended == [file_tasks EXCEPT ![t].st = "done",
                        ![t].outcome = IF cvt.exc THEN Raise(ProcessingFailed(cvt.val))
                                       ELSE cvt]
       IN  IF cvt.exc
           THEN /\ file_cache' = CachePop(file_cache, path)
                /\ file_tasks' = IF FileEntry(path) = 0 THEN ended
                                 ELSE [ended EXCEPT ![FileEntry(path)].left = "failed"]
           ELSE /\ file_cache' = file_cache
                /\ file_tasks' = ended
    /\ UNCHANGED <<config, notmw, md_converter, md_converter_lock, init_log, readers>>

\* advanced_read_file resumes when the task it awaits is done
ReadResume(r) ==
    /\ readers[r].pc = "await"
    /\ file_tasks[readers[r].fut].st = "done"
    /\ readers' = [readers EXCEPT ![r].pc = "done",
                      ![r].result = ReadOutcome(readers[r],
                                                file_tasks[readers[r].fut].outcome)]
    /\ UNCHANGED <<config, notmw, md_converter, md_converter_lock, init_log,
                   file_cache, file_tasks>>

\* the caller's task is cancelled at the await it is suspended in;
\* CancelledError is caught by none of advanced_read_file's "except
\* Exception" clauses. In Lock.acquire the waiter leaves the queue and, the
\* gate being free, wakes the next one; under "async with" the gate is left
\* and md_converter stays as it was, while the thread of _init_markitdown
\* runs on with nobody to take its result; the shielded task of
\* _convert_file_cached is left alone
ReadCancel(r) ==
    /\ readers[r].pc \in {"resolve", "wait", "init", "await"}
    /\ readers' = [readers EXCEPT ![r].pc = "cancelled"]
    /\ md_converter_lock' =
          CASE readers[r].pc = "wait" ->
                 LET rest == SelectSeq(md_converter_lock.waiters,
                                       LAMBDA w : w.id /= r)
                     left == [md_converter_lock EXCEPT !.waiters = rest]
                 IN  IF md_converter_lock.locked THEN left ELSE Release(left)
            [] readers[r].pc = "init" -> Release(md_converter_lock)
            [] OTHER -> md_converter_lock
    /\ init_log' = IF readers[r].pc = "init"
                   THEN [init_log EXCEPT ![readers[r].run].st = "abandoned"]
                   ELSE init_log
    /\ UNCHANGED <<config, notmw, md_converter, file_cache, file_tasks>>

\* the TTL timer of a resolved entry fires, some time after the task ended
FileExpire(file_path) ==
    /\ FileEntry(file_path) /= 0
    /\ file_tasks[FileEntry(file_path)].st = "done"
    /\ file_cache' = CachePop(file_cache, file_path)
    /\ file_tasks' = [file_tasks EXCEPT ![FileEntry(file_path)].left = "ttl"]
    /\ UNCHANGED <<config, notmw, md_converter, md_converter_lock, init_log,
                   readers>>

\* what md_converter.convert returns or raises
FileConvertAnswers == {Ret(<<"a", "b">>), Raise(<<"PdfError">>)}

InitMwSpec ==
    /\ variant = "web_fetch2"
    /\ InitEngine
    /\ InitDocs
    /\ InitPager
    /\ InitMemos
    /\ InitCtx
    /\ InitMw

NextMw ==
    \/ \E r \in ReaderIds, f \in FilePaths : ReadFile(r, f)
    \/ \E r \in ReaderIds, res \in {"ok", "missing"} : ReadResolve(r, res)
    \/ \E r \in ReaderIds : LockGranted(r)
    \/ \E r \in ReaderIds, ok \in BOOLEAN : InitDone(r, ok)
    \/ \E t \in ReaderIds : ConvertStart(t)
    \/ \E t \in ReaderIds, cvt \in FileConvertAnswers : ConvertDone(t, cvt)
    \/ \E r \in ReaderIds : ReadResume(r)
    \/ \E r \in ReaderIds : ReadCancel(r)
    \/ \E f \in FilePaths : FileExpire(f)

SpecMw == InitMwSpec /\ [][NextMw]_vars

\* the number of calls SpecPath explores, and the classes of backend
PathReaders == 2
Backends == {"FilesystemBackend", "StateBackend"}

InitPath ==
    /\ variant = "web_fetch2"
    /\ InitEngine
    /\ InitDocs
    /\ InitPager
    /\ InitMemos
    /\ InitCtx
    /\ backend \in Backends
    /\ InitMwState

\* calls over either backend and every outcome of the path resolution
NextPath ==
    \/ \E r \in 1..PathReaders, f \in FilePaths : ReadFile(r, f)
    \/ \E r \in ReaderIds, res \in ResolveAnswers : ReadResolve(r, res)
    \/ \E r \in ReaderIds : LockGranted(r)
    \/ \E r \in ReaderIds : InitDone(r, TRUE)
    \/ \E t \in ReaderIds : ConvertStart(t)
    \/ \E t \in ReaderIds, cvt \in FileConvertAnswers : ConvertDone(t, cvt)
    \/ \E r \in ReaderIds : ReadResume(r)

SpecPath == InitPath /\ [][NextPath]_vars

\* the number of calls SpecEmpty explores
EmptyCalls == 2

\* the document answers with a conversion that returns no text
EmptyDocAnswers ==
    DocAnswers \cup
    {[get_exc |-> FALSE, status |-> 200, ctype |-> "application/pdf",
      write_exc |-> FALSE, convert |-> Ret(<<>>)]}

\* both modules over pages and documents with and without text
NextEmpty ==
    \/ \E c \in 1..EmptyCalls, url \in {UrlA, UrlB} :
          WebFetch(c, url, DefaultParams[1], DefaultParams[2], Ret(PublicIp))
    \/ \E c \in CallIds : Resume(c)
    \/ \E t \in CallIds, p \in EngineProbeAnswers : RunProbe(t, p)
    \/ \E t \in CallIds, d \in EmptyDocAnswers : RunDocument(t, d)
    \/ \E t \in CallIds, r \in RenderAnswers : RunRender(t, r)

SpecEmpty == Init /\ [][NextEmpty]_vars

\* the number of calls SpecTtl explores
TtlCalls == 3

\* one URL, every fetch succeeding, while time passes: no entry is dropped
\* for want of room
NextTtl ==
    \/ \E c \in 1..TtlCalls :
          WebFetch(c, UrlA, DefaultParams[1], DefaultParams[2], Ret(PublicIp))
    \/ \E c \in CallIds : Resume(c)
    \/ \E t \in CallIds, p \in EngineProbeAnswers : RunProbe(t, p)
    \/ \E t \in CallIds, r \in {x \in EngineRenderAnswers : x.kind = "ok"} : RunRender(t, r)
    \/ Tick

SpecTtl == Init /\ [][NextTtl]_vars

\* the number of calls SpecIndep explores
IndepCalls == 3

\* the next step of task t, whatever the network answers
TaskStep(t) ==
    \/ \E p \in EngineProbeAnswers : RunProbe(t, p)
    \/ \E d \in EngineDocAnswers : RunDocument(t, d)
    \/ \E r \in EngineRenderAnswers : RunRender(t, r)

\* fetches of two URLs: the tasks for UrlB are scheduled and keep receiving
\* their answers, the tasks for UrlA may wait for theirs for ever
NextIndep ==
    \/ \E c \in 1..IndepCalls, url \in {UrlA, UrlB} :
          WebFetch(c, url, DefaultParams[1], DefaultParams[2], Ret(PublicIp))
    \/ \E c \in CallIds : Resume(c)
    \/ \E t \in CallIds : TaskStep(t)

SpecIndep ==
    /\ InitRoute
    /\ [][NextIndep]_vars
    /\ WF_vars(\E t \in CallIds : tasks[t].url = UrlB /\ TaskStep(t))
    /\ WF_vars(\E c \in CallIds : calls[c].url = UrlB /\ Resume(c))

----------------------------------------------------------------------------
(* The memory store client: MemosClient with its optional shared session, *)
(* one action for each stretch between two awaits                          *)

\* the messages the store returns, with a field the client drops
StoredMessages ==
    <<[role |-> "user", content |-> "hi", message_id |-> "m1"],
      [role |-> "assistant", content |-> "hello", message_id |-> "m2"]>>

\* a JSON object of the store: its code, when it has one, and its data
Json(has_code, code, data) ==
    [kind |-> "json", has_code |-> has_code, code |-> code, data |-> data,
     error |-> <<>>]

\* what the request of _post gives: a JSON object, an aiohttp.ClientError
\* (a refused connection, or the ClientResponseError of raise_for_status),
\* or an exception of another class (asyncio.TimeoutError)
PostAnswers ==
    {Json(TRUE, 0, {<<"message_detail_list", StoredMessages>>}),
     Json(TRUE, 0, {}),
     Json(TRUE, 40001, {<<"message_detail_list", StoredMessages>>}),
     Json(FALSE, 0, {}),
     [kind |-> "ClientError", has_code |-> FALSE, code |-> 0, data |-> {},
      error |-> <<"Cannot connect to host">>],
     [kind |-> "TimeoutError", has_code |-> FALSE, code |-> 0, data |-> {},
      error |-> <<>>]}

\* dict.get(key, default) on a mapping kept as a set of pairs
DictGet(d, key, default) ==
    IF \E kv \in d : kv[1] = key THEN (CHOOSE kv \in d : kv[1] = key)[2] ELSE default

\* what _post returns for an answer that does not raise
post_result(ans) ==
    IF ans.kind = "ClientError"
    THEN [has_code |-> TRUE, code |-> 0 - 1,
          message |-> <<"Request failed: ">> \o ans.error, data |-> {}]
    ELSE [has_code |-> ans.has_code, code |-> ans.code, message |-> <<>>,
          data |-> ans.data]

\* get_history returns the data whatever the code is
get_history_any_code(result) ==
    LET raw_list == DictGet(result.data, "message_detail_list", <<>>)
    IN  [i \in 1..Len(raw_list) |->
            [role |-> raw_list[i].role, content |-> raw_list[i].content]]

\* get_history on the result of _post
get_history(result) ==
    IF result.has_code /\ result.code = 0
    THEN LET raw_list == DictGet(result.data, "message_detail_list", <<>>)
         IN  [i \in 1..Len(raw_list) |->
                 [role |-> raw_list[i].role, content |-> raw_list[i].content]]
    ELSE <<>>

\* search_memory on the result of _post
search_memory(result) ==
    IF result.has_code /\ result.code = 0 THEN result.data ELSE {}

Methods == {"add_messages", "get_history", "search_memory"}

\* __aenter__: a session is created when there is none
MemosEnter ==
    /\ ~ entered
    /\ entered' = TRUE
    /\ IF self_session = 0
       THEN /\ sessions' = Append(sessions, NewSession("aenter"))
            /\ self_session' = Len(sessions) + 1
       ELSE UNCHANGED <<sessions, self_session>>
    /\ UNCHANGED <<config, notmemo, posts>>

\* __aexit__: the session of the client, when it is open, is closed
MemosExit ==
    /\ entered
    /\ entered' = FALSE
    /\ sessions' = IF self_session /= 0 /\ ~ sessions[self_session].closed
                   THEN [sessions EXCEPT ![self_session].closed = TRUE,
                                         ![self_session].closed_by = "aexit"]
                   ELSE sessions
    /\ UNCHANGED <<config, notmemo, self_session, posts>>

\* a method is called and _post runs up to the request: the client's session
\* when it is open, else a session of its own
PostStart(p, method) ==
    /\ posts[p].pc = "idle"
    /\ IF p = 1 THEN TRUE ELSE posts[p - 1].pc /= "idle"
    /\ LET reuse == self_session /= 0 /\ ~ sessions[self_session].closed
       IN  /\ sessions' = IF reuse THEN sessions
                          ELSE Append(sessions, NewSession("post"))
           /\ posts' = [posts EXCEPT ![p] =
                 [NoPost EXCEPT !.pc = "request", !.method = method,
                     !.session = IF reuse THEN self_session ELSE Len(sessions) + 1,
                     !.created_new_session = ~ reuse]]
    /\ UNCHANGED <<config, notmemo, self_session, entered>>

\* the finally clause closes whatever session the call used
PostRespond_CloseAny(p, ans) ==
    /\ posts[p].pc = "request"
    /\ sessions' = [sessions EXCEPT ![posts[p].session].closed = TRUE,
                                    ![posts[p].session].closed_by = "post"]
    /\ LET result == post_result(ans)
           raised == ans.kind = "TimeoutError"
       IN  posts' = [posts EXCEPT ![p].pc = "done", ![p].raised = raised,
                        ![p].seen = ans.kind,
                        ![p].result = IF raised THEN NoPost.result ELSE result,
                        ![p].history = IF raised \/ posts[p].method /= "get_history"
                                       THEN <<>> ELSE get_history(result),
                        ![p].memory = IF raised \/ posts[p].method /= "search_memory"
                                      THEN {} ELSE search_memory(result)]
    /\ UNCHANGED <<config, notmemo, self_session, entered>>

\* the request ends: the JSON object is returned, a ClientError becomes the
\* result with code -1, any other exception is raised; the finally clause
\* closes the session this call created; get_history and search_memory then
\* take their value from the result
PostRespond(p, ans) ==
    /\ posts[p].pc = "request"
    /\ sessions' = IF posts[p].created_new_session /\ ~ sessions[posts[p].session].closed
                   THEN [sessions EXCEPT ![posts[p].session].closed = TRUE,
                                         ![posts[p].session].closed_by = "post"]
                   ELSE sessions
    /\ LET result == post_result(ans)
           raised == ans.kind = "TimeoutError"
       IN  posts' = [posts EXCEPT ![p].pc = "done", ![p].raised = raised,
                        ![p].seen = ans.kind,
                        ![p].result = IF raised THEN NoPost.result ELSE result,
                        ![p].history = IF raised \/ posts[p].method /= "get_history"
                                       THEN <<>> ELSE get_history(result),
                        ![p].memory = IF raised \/ posts[p].method /= "search_memory"
                                      THEN {} ELSE search_memory(result)]
    /\ UNCHANGED <<config, notmemo, self_session, entered>>

InitMemosSpec ==
    /\ variant = "web_fetch2"
    /\ InitEngine
    /\ InitDocs
    /\ InitPager
    /\ InitMw
    /\ InitCtx
    /\ NoSession \/ InjectedSession
    /\ MemosIdle

NextMemos ==
    \/ MemosEnter
    \/ MemosExit
    \/ \E p \in PostIds, method \in Methods : PostStart(p, method)
    \/ \E p \in PostIds, ans \in PostAnswers : PostRespond(p, ans)

SpecMemos == InitMemosSpec /\ [][NextMemos]_vars

----------------------------------------------------------------------------
(* The logging context: LogContext over the five ContextVars, each task    *)
(* running in a context of its own                                         *)

\* ContextVar.get() in task t
CtxGet(values, v) == IF values[v] = "MISSING" THEN CtxDefault[v] ELSE values[v]

\* the values the getters return in a context
Current(values) == [v \in DOMAIN CtxDefault |-> CtxGet(values, v)]

\* the variables __enter__ sets for object i, in its order
SetBy(i) == SelectSeq(CtxNames, LAMBDA v : Attrs(i)[v] /= "")

\* the position of v among the variables object i sets
RankIn(i, v) == CHOOSE n \in 1..Len(SetBy(i)) : SetBy(i)[n] = v

\* __enter__ of object i in task t: each attribute that is set goes into its
\* variable, and the token ContextVar.set returns goes into _tokens
Enter(t, i) ==
    /\ Len(blocks[t]) < MaxDepth
    /\ Len(minted) + Len(SetBy(i)) <= MaxTokens
    /\ ctx' = [ctx EXCEPT ![t] =
                  [v \in DOMAIN CtxDefault |->
                      IF Attrs(i)[v] /= "" THEN Attrs(i)[v] ELSE ctx[t][v]]]
    /\ minted' = minted \o
                 [n \in 1..Len(SetBy(i)) |->
                     [var |-> SetBy(i)[n], task |-> t, old |-> ctx[t][SetBy(i)[n]]]]
    /\ self_tokens' = [self_tokens EXCEPT ![i] =
                          [v \in DOMAIN CtxDefault |->
                              IF Attrs(i)[v] /= "" THEN Len(minted) + RankIn(i, v)
                              ELSE self_tokens[i][v]]]
    /\ blocks' = [blocks EXCEPT ![t] =
                     Append(blocks[t], [inst |-> i, before |-> Current(ctx[t])])]
    /\ UNCHANGED <<config, notctx, used>>

\* whether ContextVar.reset(token) raises in task t: RuntimeError for a token
\* used before, ValueError for one created in another context
ResetRaises(t, tok, spent) == tok \in spent \/ minted[tok].task /= t

RECURSIVE ResetAll(_, _, _, _, _)
\* the resets of __exit__ from variable number n on, in task t with the
\* tokens toks: the values and the used tokens they leave, up to the first
\* reset that raises
ResetAll(t, toks, n, values, spent) ==
    IF n > Len(CtxNames) THEN [values |-> values, used |-> spent, raised |-> FALSE]
    ELSE LET v == CtxNames[n]
             tok == toks[v]
         IN  IF tok = 0 THEN ResetAll(t, toks, n + 1, values, spent)
             ELSE IF ResetRaises(t, tok, spent)
             THEN [values |-> values, used |-> spent, raised |-> TRUE]
             ELSE ResetAll(t, toks, n + 1, [values EXCEPT ![v] = minted[tok].old],
                           spent \cup {tok})

\* the innermost block of task t is left: __exit__ of its object resets the
\* variables with the tokens now in _tokens
Exit(t) ==
    /\ blocks[t] /= <<>>
    /\ LET top == blocks[t][Len(blocks[t])]
           out == ResetAll(t, self_tokens[top.inst], 1, ctx[t], used)
       IN  /\ ctx' = [ctx EXCEPT ![t] = out.values]
           /\ used' = out.used
    /\ blocks' = [blocks EXCEPT ![t] = SubSeq(blocks[t], 1, Len(blocks[t]) - 1)]
    /\ UNCHANGED <<config, notctx, self_tokens, minted>>

\* set_log_context(trace_id="t-9", api_path="/admin") in task t
SetLogContext(t) ==
    /\ blocks[t] /= <<>>
    /\ ctx[t].trace_id /= "t-9"
    /\ ctx' = [ctx EXCEPT ![t].trace_id = "t-9", ![t].api_path = "/admin"]
    /\ UNCHANGED <<config, notctx, blocks, self_tokens, used, minted>>

InitCtxSpec ==
    /\ variant = "web_fetch2"
    /\ InitEngine
    /\ InitDocs
    /\ InitPager
    /\ InitMw
    /\ InitMemos
    /\ InitCtx

NextCtx ==
    \/ \E t \in TaskIds, i \in Instances : Enter(t, i)
    \/ \E t \in TaskIds : Exit(t)
    \/ \E t \in TaskIds : SetLogContext(t)

SpecCtx == InitCtxSpec /\ [][NextCtx]_vars

----------------------------------------------------------------------------
(* Properties of the engine *)

\* C1: at any time at most one _crawl_url task is in flight for a URL
C1_OneProducerPerKey ==
    \A t1, t2 \in CallIds :
        (t1 /= t2 /\ Running(t1) /\ Running(t2)) => tasks[t1].url /= tasks[t2].url

\* C2: the calls that wait for the same URL at the same time wait for one and
\* the same producer run, whose outcome each of them gets
C2_CallersShareOneRun ==
    \A c1, c2 \in CallIds :
        (calls[c1].pc = "await" /\ calls[c2].pc = "await"
            /\ calls[c1].url = calls[c2].url)
        => calls[c1].fut = calls[c2].fut

\* C3: no call is answered from a stored failed fetch: a fetch that failed is
\* fetched again by the next call for the URL
C3_FailureNotServed ==
    \A c \in CallIds :
        calls[c].hit = "resolved" => ~ tasks[calls[c].fut].failed

\* C4: a call made after a call for the same URL ended with fetched content,
\* before ttl has passed and with no capacity eviction of that content, starts
\* no fetch, and returns the same string when its arguments are the same
C4_ServedFromCache ==
    \A c \in CallIds :
        calls[c].prior /= 0 =>
            /\ calls[c].hit = "resolved"
            /\ (calls[c].start_index = calls[calls[c].prior].start_index
                  /\ calls[c].max_length = calls[calls[c].prior].max_length)
               => calls[c].result = calls[calls[c].prior].result

C6_BlockedNoRequest ==
    [][\A c \in CallIds :
          (/\ calls[c].pc = "new" /\ calls'[c].pc /= "new"
           /\ calls'[c].lookups = 1 /\ ~ calls'[c].resolve_exc
           /\ (is_private(calls'[c].ip) \/ is_loopback(calls'[c].ip)))
          => (/\ calls'[c].pc = "done"
              /\ calls'[c].result = SecurityBlock
              /\ UNCHANGED <<cache, timers, tasks>>)]_vars

\* the metadata address was asked for while the cache held an entry
C6_Witness ==
    \E c \in CallIds :
        /\ calls[c].pc = "done" /\ calls[c].ip = MetadataIp
        /\ calls[c].result = SecurityBlock
        /\ Len(cache) > 0

\* C7: a call whose validation refuses the URL returns the security block and
\* nothing from the cache, whatever the cache holds
C7_ValidatedBeforeLookup ==
    \A c \in CallIds :
        (calls[c].pc /= "new" /\ ~ calls[c].safe)
        => (/\ calls[c].pc = "done" /\ calls[c].result = SecurityBlock
            /\ calls[c].fut = 0 /\ calls[c].hit = "none")

\* a refused call for a URL whose content the cache held
C7_Witness ==
    \E c \in CallIds :
        calls[c].pc = "done" /\ ~ calls[c].safe /\ calls[c].cached

\* whether the URL of call c has no host name, does not parse, or did not
\* resolve
Unresolvable(c) ==
    \/ urlparse_hostname(calls[c].url).exc
    \/ urlparse_hostname(calls[c].url).val = ""
    \/ calls[c].resolve_exc

HasHostname(c) ==
    ~ urlparse_hostname(calls[c].url).exc /\ urlparse_hostname(calls[c].url).val /= ""

\* C8 as stated: a URL with no host name or whose resolution fails is blocked
\* at once, after exactly one resolution attempt
C8_ExactlyOneResolution ==
    \A c \in CallIds :
        (calls[c].pc /= "new" /\ Unresolvable(c))
        => (/\ calls[c].pc = "done" /\ calls[c].result = SecurityBlock
            /\ calls[c].lookups = 1)

\* C8 as amended: a URL with no host name or whose resolution fails is blocked
\* at once, after one resolution attempt when the URL has a host name and
\* none when it has not
C8_AtMostOneResolution ==
    \A c \in CallIds :
        (calls[c].pc /= "new" /\ Unresolvable(c))
        => (/\ calls[c].pc = "done" /\ calls[c].result = SecurityBlock
            /\ calls[c].fut = 0
            /\ calls[c].lookups = IF HasHostname(c) THEN 1 ELSE 0)

\* one call blocked on a failed resolution, one on a URL without host name
C8_Witness ==
    \E c1, c2 \in CallIds :
        /\ calls[c1].pc = "done" /\ calls[c1].resolve_exc /\ calls[c1].lookups = 1
        /\ calls[c2].pc = "done" /\ calls[c2].url = UrlNoHost

\* C9: a call whose fetch failed returns a string that starts with the error
\* tag
C9_FailureIsErrorTagged ==
    \A c \in CallIds :
        (calls[c].pc = "done" /\ calls[c].fut /= 0 /\ tasks[calls[c].fut].failed)
        => (Len(calls[c].result) > 0 /\ calls[c].result[1] = "<error>")

\* the keys the cache holds
Keys(seq) == {seq[i].key : i \in 1..Len(seq)}

\* C16: the cache never holds more entries than its capacity, its entries are
\* in the order of their last use by a call, and the entry a call's insertion
\* drops was used before every entry that stays
C16_BoundedLru ==
    /\ [](/\ Len(cache) <= capacity
          /\ \A i, j \in 1..Len(cache) : i < j => cache[i].used < cache[j].used)
    /\ [][calls' /= calls =>
            \A i, j \in 1..Len(cache) :
                (cache[i].key \notin Keys(cache') /\ cache[j].key \in Keys(cache'))
                => cache[i].used < cache[j].used]_vars

\* an entry was dropped for capacity while an entry used after it stayed, the
\* dropped one being older in use but not in insertion
C16_Witness ==
    \E c \in CallIds :
        /\ calls[c].hit = "miss" /\ Len(cache) = capacity /\ capacity > 1
        /\ \E b \in 1..(c - 1) : calls[b].url \notin Keys(cache)
                                 /\ calls[b].hit = "miss"
        /\ \E a, h \in 1..(c - 1) :
              /\ a < h /\ calls[a].url = calls[h].url /\ calls[h].hit /= "miss"
              /\ calls[a].url \in Keys(cache)
              /\ \E b \in (a + 1)..(h - 1) : calls[b].url \notin Keys(cache)

\* whether the probe of task t was inconclusive: a transport error, or a
\* status of 403, 404 or 405
ProbeDenied(t) ==
    tasks[t].probed.exc \/ tasks[t].probed.status \in {403, 404, 405}

Probed(t) == tasks[t].pc \in {"doc", "page", "done"}

\* C14: after an inconclusive probe the task is on the page path, whatever
\* the suffix of the URL: the render is its next step or has produced its
\* outcome, and the document path is never taken
C14_ProbeNeverBlocks ==
    \A t \in CallIds :
        (Probed(t) /\ ProbeDenied(t))
        => (/\ ~ tasks[t].is_document
            /\ tasks[t].pc \in {"page", "done"}
            /\ tasks[t].detected_type = "")

\* a URL ending in .pdf whose probe failed in transport was rendered
C14_Witness ==
    \E t \in CallIds :
        /\ tasks[t].pc = "done" /\ tasks[t].probed.exc
        /\ tasks[t].url = UrlB /\ ~ tasks[t].is_document
        /\ ~ tasks[t].outcome.exc

\* the path of the URL: what precedes "?"
UrlPath(url) == SubSeq(url, 1, FirstIndexOf(url, "?") - 1)

\* C15: after a conclusive probe the task is on the document path exactly
\* when the declared type is in the MIME table, or the type is absent or
\* generic and the path of the URL ends in .pdf, .docx, .xlsx or .pptx
C15_DocumentIff ==
    \A t \in CallIds :
        (Probed(t) /\ ~ ProbeDenied(t))
        => (tasks[t].is_document
            <=> \/ tasks[t].probed.ctype \in DOMAIN MIME_TO_EXT
                \/ /\ tasks[t].probed.ctype \in {"", "application/octet-stream"}
                   /\ EndsWithDocSuffix(UrlPath(tasks[t].url)))

----------------------------------------------------------------------------
(* Properties of the document converter *)

\* C10: when a conversion call has returned, the temporary file it created
\* exists no more, and a call that failed has returned a failure marker
C10_TempFileGone ==
    \A k \in ConvIds :
        convs[k].pc = "returned" =>
            /\ convs[k].temp_path /= 0 => convs[k].temp_path \notin Paths
            /\ (DocFailed(convs[k].seen) \/ convs[k].remove_exc)
                  => PySlice(convs[k].result, 0, 1) \in {<<"<error>">>}

----------------------------------------------------------------------------
(* Properties of the pagination *)

\* the integer ceiling of a / b
Ceil(a, b) == (a + b - 1) \div b

\* C11 as stated: with start_index at or past the end of the text, the empty
\* text included, the page is exactly the end-of-content marker with the
\* total length, and asking again gives the same page
C11_PastEndIsEndMarker ==
    (pager.pc = "called" /\ pager.tool = "process_content"
        /\ pager.start_index >= Len(pager.text))
    => (/\ pager.out = EndOfContent(Len(pager.text))
        /\ pager.again => pager.out = pager.prev)

\* C11 as amended: the same for every text that is not empty; for the empty
\* text the page is the no-content marker, and again the same when asked again
C11_PastEndNonEmpty ==
    (pager.pc = "called" /\ pager.tool = "process_content"
        /\ pager.start_index >= Len(pager.text))
    => (/\ pager.out = IF pager.text = <<>> THEN NoContent
                       ELSE EndOfContent(Len(pager.text))
        /\ pager.again => pager.out = pager.prev)

\* a page past the end of a text that is not empty was asked for twice
C11_Witness ==
    /\ pager.pc = "called" /\ pager.tool = "process_content" /\ pager.again
    /\ pager.start_index >= Len(pager.text)
    /\ pager.text /= <<>>
    /\ pager.out = EndOfContent(Len(pager.text))

\* the page without the header advanced_read_file puts in front of it
PageBody(tool, out) ==
    IF tool = "advanced_read_file" /\ Len(out) >= 3 THEN SubSeq(out, 4, Len(out))
    ELSE out

\* C12: with start_index before the end of the text, the page is the slice
\* text[start_index : min(start_index + max_length, len)] followed by one
\* marker: the truncation marker naming start_index + max_length when the
\* slice ends before the text does, an end-of-content marker when it does not
C12_SliceThenOneMarker ==
    (pager.pc = "called" /\ pager.start_index < Len(pager.text))
    => LET full_len == Len(pager.text)
           end_index == Min(pager.start_index + pager.max_length, full_len)
           chunk == SubSeq(pager.text, pager.start_index + 1, end_index)
           body == PageBody(pager.tool, pager.out)
       IN  IF end_index < full_len
           THEN body = chunk \o TruncatedMarker(pager.start_index + pager.max_length)
           ELSE body \in {chunk \o EndOfContent(full_len),
                          chunk \o FileEndOfContent(full_len),
                          chunk \o FileEndFooter}

\* C13: reading from start_index 0 and on from the offset each truncation
\* marker names, call number ceil(len / max_length) brings an end-of-content
\* marker and every call before it a truncation marker
C13_EndAfterCeilCalls ==
    (pager.pc = "called" /\ pager.walk)
    => LET full_len == Len(pager.text)
           last == Ceil(full_len, pager.max_length)
           body == PageBody(pager.tool, pager.out)
       IN  /\ pager.n < last => HasTruncated(pager.out)
           /\ pager.n = last =>
                 \E k \in 0..Len(body) :
                     SubSeq(body, k + 1, Len(body)) \in
                         {EndOfContent(full_len), FileEndOfContent(full_len),
                          FileEndFooter}

\* C17: a caller that is cancelled while it awaits a shared in-flight fetch
\* leaves the fetch alone: the step changes neither the task, the cache nor
\* the other callers; the task, once started, runs to its end; and every
\* other caller that awaits the same future is resumed with the outcome of
\* that task.
C17_CancelLeavesFetch ==
    /\ [][\A c \in CallIds :
            (calls[c].pc = "await" /\ calls'[c].pc = "cancelled") =>
                /\ tasks' = tasks /\ cache' = cache /\ timers' = timers
                /\ \A o \in CallIds \ {c} : calls'[o] = calls[o]]_vars
    /\ [](\A t \in CallIds : tasks[t].pc \in {"none", "probe", "doc", "page", "done"})
    /\ \A t \in CallIds : Running(t) ~> (tasks[t].pc = "done")
    /\ \A c \in CallIds :
          (calls[c].pc = "await") ~> (calls[c].pc \in {"done", "cancelled"})
    /\ [](\A c, o \in CallIds :
            (calls[c].pc = "cancelled" /\ calls[o].pc = "done" /\ o /= c
             /\ calls[o].fut = calls[c].fut) =>
                /\ tasks[calls[o].fut].pc = "done"
                /\ calls[o].result = Completed(tasks[calls[o].fut].outcome,
                                               calls[o].start_index,
                                               calls[o].max_length))

\* one caller was cancelled, the task it awaited ended all the same, and
\* another caller that awaited the same future has its outcome
C17_Witness ==
    \E c, o \in CallIds :
        /\ o /= c
        /\ calls[c].pc = "cancelled" /\ calls[c].hit = "miss"
        /\ calls[o].pc = "done" /\ calls[o].hit = "pending"
        /\ calls[o].fut = calls[c].fut
        /\ tasks[calls[c].fut].pc = "done"
        /\ calls[o].result = Completed(tasks[calls[c].fut].outcome,
                                       calls[o].start_index, calls[o].max_length)

\* whether sub occurs in s as a run of consecutive tokens
Contains(s, sub) ==
    \E i \in 1..(Len(s) - Len(sub) + 1) : SubSeq(s, i, i + Len(sub) - 1) = sub

\* C18: when the extraction raises, the converter returns the conversion
\* failure marker around the cause, and the name of the temporary file
\* occurs nowhere in what it returns.
C18_FailureHidesTempPath ==
    \A k \in ConvIds :
        (convs[k].pc = "returned" /\ convs[k].seen.convert.exc) =>
            /\ convs[k].result = MarkItDownFailed(convs[k].seen.convert.val)
            /\ ~ Contains(convs[k].result,
                          TempName(convs[k].temp_path, convs[k].ext))

\* the provenance header for a detected type
ProvenanceHeader(detected) == <<"# Document Content (Source: ", detected, ")">>

\* C20: a conversion that succeeded has returned a text that starts with
\* the provenance header, and the type in the header is the type passed in
\* by the probe when there is one, else the type of the download response.
C20_ProvenanceHeader ==
    \A k \in ConvIds :
        (convs[k].pc = "returned" /\ ~ DocFailed(convs[k].seen)) =>
            LET detected == IF convs[k].hint /= "" THEN convs[k].hint
                            ELSE convs[k].seen.ctype
            IN  /\ PySlice(convs[k].result, 0, 3) = ProvenanceHeader(detected)
                /\ PySlice(convs[k].result, 3, Len(convs[k].result))
                      = convs[k].seen.convert.val

\* one conversion succeeded with a hinted type that differs from the type of
\* the response, another succeeded without a hint
C20_Witness ==
    \E k, j \in ConvIds :
        /\ convs[k].pc = "returned" /\ ~ DocFailed(convs[k].seen)
        /\ convs[k].hint = "application/pdf" /\ convs[k].seen.ctype = "text/html"
        /\ convs[j].pc = "returned" /\ ~ DocFailed(convs[j].seen)
        /\ convs[j].hint = "" /\ convs[j].seen.ctype = "application/pdf"
        /\ convs[j].seen.convert.val /= <<>>

----------------------------------------------------------------------------
(* Properties of the file middleware *)

\* whether the reader has gone past _ensure_md_converter
PastEnsure(r) ==
    \/ readers[r].pc = "await"
    \/ readers[r].pc = "done" /\ readers[r].fut /= 0

\* every reader and every task goes on to the conversion with a converter,
\* and md_converter, once set, was set by one run and is not None again
ProceedsWithConverter ==
    /\ \A r \in ReaderIds : PastEnsure(r) => readers[r].converter /= 0
    /\ \A t \in 1..Len(file_tasks) :
          /\ file_tasks[t].st /= "gate"
          /\ file_tasks[t].st \in {"executor", "done"} => file_tasks[t].converter /= 0
    /\ Cardinality({i \in 1..Len(init_log) : init_log[i].st = "ok"}) <= 1
    /\ IF md_converter = 0
       THEN \A i \in 1..Len(init_log) : init_log[i].st /= "ok"
       ELSE /\ md_converter \in 1..Len(init_log)
            /\ init_log[md_converter].st = "ok"
            /\ \A r \in ReaderIds : readers[r].converter \in {0, md_converter}

\* C19: under concurrent first use _init_markitdown runs at most once, every
\* task goes on only with md_converter set, and md_converter is never reset
\* or replaced.
C19_InitRunsOnce ==
    /\ Len(init_log) <= 1
    /\ ProceedsWithConverter

\* C19 as the code has it: _init_markitdown is run only by the holder of the
\* gate while md_converter is None, so a run begins only after every earlier
\* run has raised or lost its cancelled caller, and no run begins once one
\* has returned a converter; every task goes on only with md_converter set,
\* and md_converter is never reset or replaced.
C19_InitUntilConverter ==
    /\ \A i \in 1..(Len(init_log) - 1) : init_log[i].st \in {"raised", "abandoned"}
    /\ \A i \in 1..Len(init_log) :
          init_log[i].st = "running" =>
              /\ md_converter_lock.locked
              /\ readers[init_log[i].by].pc = "init"
    /\ ProceedsWithConverter

\* three readers arrived before there was a converter: the first run of
\* _init_markitdown raised, the run of a reader that had waited for the gate
\* returned the converter, and a reader that waited behind both went on
\* without running it
C19_Witness ==
    /\ Len(init_log) = 2
    /\ init_log[1].st = "raised" /\ init_log[2].st = "ok"
    /\ readers[init_log[2].by].waited
    /\ \E r \in ReaderIds :
          /\ readers[r].waited /\ readers[r].run = 0
          /\ readers[r].pc = "done" /\ readers[r].converter = 2
          /\ PySlice(readers[r].result, 0, 1) = <<"### File Content: ">>

\* whether the task ended in success without text: a page whose markdown is
\* empty, or a document whose conversion returned the header and nothing else
NoUsableText(t) ==
    /\ tasks[t].pc = "done" /\ ~ tasks[t].failed
    /\ \/ tasks[t].outcome.val = <<>>
       \/ /\ tasks[t].is_document
          /\ Len(tasks[t].outcome.val) = 3
          /\ PySlice(tasks[t].outcome.val, 0, 1) = <<"# Document Content (Source: ">>

\* C21: a call whose fetch succeeded without usable text returns the
\* empty-content message, which carries no error tag, and a call whose fetch
\* failed never returns it.
C21_EmptyIsNotFailure ==
    \A c \in CallIds :
        (calls[c].pc = "done" /\ calls[c].fut /= 0) =>
            /\ NoUsableText(calls[c].fut) =>
                  (calls[c].result = NoContent /\ "<error>" \notin
                      {calls[c].result[i] : i \in 1..Len(calls[c].result)})
            /\ tasks[calls[c].fut].failed => calls[c].result /= NoContent

\* C22: a call for a URL made less than 15 minutes after a fetch of that URL
\* ended with content is answered from the cache, by the task of that fetch
\* and without a new one.
C22_FifteenMinuteCache ==
    \A c \in CallIds :
        (calls[c].pc /= "new" /\ calls[c].safe
         /\ calls[c].fetched_age >= 0 /\ calls[c].fetched_age < DocumentedTtl) =>
            /\ calls[c].hit = "resolved"
            /\ calls[c].fut < c

\* text.split("\n"): the lines of a text, without their line ends
RECURSIVE SplitLines(_)
SplitLines(text) ==
    LET k == CHOOSE i \in 1..(Len(text) + 1) :
                 /\ i = Len(text) + 1 \/ text[i] = "\n"
                 /\ \A j \in 1..(i - 1) : text[j] /= "\n"
    IN  IF k = Len(text) + 1 THEN <<text>>
        ELSE <<SubSeq(text, 1, k - 1)>> \o SplitLines(SubSeq(text, k + 1, Len(text)))

\* "\n".join(lines)
RECURSIVE JoinLines(_)
JoinLines(lines) ==
    IF lines = <<>> THEN <<>>
    ELSE IF Len(lines) = 1 THEN lines[1]
    ELSE lines[1] \o <<"\n">> \o JoinLines(Tail(lines))

\* what a page of advanced_read_file holds between its header and its footer
PageContent(out) ==
    LET k == CHOOSE i \in 4..(Len(out) + 1) :
                 /\ i = Len(out) + 1 \/ out[i] \in {TruncatedMarker(0)[1], FileEndFooter[1]}
                 /\ \A j \in 4..(i - 1) : out[j] \notin {TruncatedMarker(0)[1], FileEndFooter[1]}
    IN  SubSeq(out, 4, k - 1)

\* C23: advanced_read_file returns the lines offset .. offset + limit - 1 of
\* the converted text, offset counting lines from 0, and so at most limit
\* lines.
C23_OffsetAndLimitAreLines ==
    (pager.pc = "called" /\ pager.tool = "advanced_read_file"
     /\ ~ IsBlank(pager.text)
     /\ pager.start_index < Len(SplitLines(pager.text))) =>
        LET lines == SplitLines(pager.text)
            last  == Min(pager.start_index + pager.max_length, Len(lines))
        IN  /\ PySlice(pager.out, 0, 3) = FileHeader("/docs/a.pdf")
            /\ PageContent(pager.out)
                  = JoinLines(SubSeq(lines, pager.start_index + 1, last))
            /\ Len(SplitLines(PageContent(pager.out))) <= pager.max_length

\* whether a returned string is the download failure marker, and whether it
\* is the conversion failure marker
IsDownloadFailure(res) == Len(res) >= 2 /\ res[2] = DownloadFailed(0)[2]
IsConversionFailure(res) == Len(res) >= 2 /\ res[2] = MarkItDownFailed(<<>>)[2]

\* C24: a conversion call whose download raised or answered with a status
\* other than 200 returns the download failure marker, and a call returns
\* the conversion failure marker only when the document was downloaded and
\* the extraction raised.
C24_FailureNamesItsStage ==
    \A k \in ConvIds :
        convs[k].pc = "returned" =>
            /\ (convs[k].seen.get_exc \/ convs[k].seen.status /= 200)
                  => IsDownloadFailure(convs[k].result)
            /\ IsConversionFailure(convs[k].result)
                  => /\ ~ convs[k].seen.get_exc
                     /\ convs[k].seen.status = 200
                     /\ ~ convs[k].seen.write_exc
                     /\ convs[k].seen.convert.exc

\* C25: a task of web_fetch2's _crawl_url calls the probe once and then, the
\* probe done, one of the two branches once: the converter with the type the
\* probe declared when the probe classified a document, the renderer
\* otherwise; no component is called a second time.
C25_ProbeThenOneBranch ==
    variant = "web_fetch2" =>
        \A t \in CallIds :
            LET probe   == [op |-> "probe", arg |-> ""]
                convert == [op |-> "convert", arg |-> tasks[t].probed.ctype]
                render  == [op |-> "render", arg |-> ""]
            IN  CASE tasks[t].pc = "none"  -> tasks[t].steps = <<>>
                  [] tasks[t].pc = "probe" -> tasks[t].steps = <<>>
                  [] tasks[t].pc = "doc"   ->
                        tasks[t].steps = <<probe>> /\ tasks[t].is_document
                  [] tasks[t].pc = "page"  ->
                        tasks[t].steps = <<probe>> /\ ~ tasks[t].is_document
                  [] tasks[t].pc = "done"  ->
                        tasks[t].steps = IF tasks[t].is_document
                                         THEN <<probe, convert>>
                                         ELSE <<probe, render>>
                  [] OTHER -> FALSE

\* a task whose probe declared a PDF called the converter with that type and
\* ended, although the conversion failed
C25_Witness ==
    \E t \in CallIds :
        /\ tasks[t].pc = "done" /\ tasks[t].failed
        /\ tasks[t].probed.ctype = "application/pdf"
        /\ tasks[t].steps = <<[op |-> "probe", arg |-> ""],
                              [op |-> "convert", arg |-> "application/pdf"]>>

\* C26: a conversion call whose download answered with a status other than
\* 200 returns the download failure marker with that status, and has neither
\* created a temporary file nor called the extraction.
C26_Non200StopsEarly ==
    \A k \in ConvIds :
        (convs[k].pc \in {"finally", "remove", "returned"}
         /\ ~ convs[k].seen.get_exc /\ convs[k].seen.status /= 200) =>
            /\ convs[k].result = DownloadFailed(convs[k].seen.status)
            /\ convs[k].temp_path = 0
            /\ convs[k].did = {}

\* a call has returned on a response with status 500 while another call's
\* temporary file is on disk
C26_Witness ==
    \E k, j \in ConvIds :
        /\ convs[k].pc = "returned" /\ convs[k].seen.status = 500
        /\ convs[k].result = DownloadFailed(500)
        /\ convs[j].temp_path /= 0 /\ convs[j].temp_path \in Paths

\* the suffix after the last "." of the last segment of the URL's path, the
\* query string left out; "" when that segment has none
PathSuffix(url) ==
    LET path == UrlPath(url)
        cut  == LastIndexOf(path, "/")
        seg  == IF cut = 0 THEN <<>> ELSE SubSeq(path, cut + 1, Len(path))
    IN  IF seg /= <<>> /\ seg[Len(seg)] \in DotTokens THEN seg[Len(seg)] ELSE ""

\* C27: the suffix of the temporary file is the table's entry for the hinted,
\* else the observed, content type; failing that what the MIME guesser says;
\* failing that the suffix of the last segment of the URL's path; failing
\* that ".tmp"; and it is never empty.
C27_ExtensionChain ==
    \A k \in ConvIds :
        (convs[k].pc \notin {"idle", "get"} /\ ~ convs[k].seen.get_exc
         /\ convs[k].seen.status = 200) =>
            LET ct == IF convs[k].hint /= "" THEN convs[k].hint
                      ELSE convs[k].seen.ctype
            IN  /\ convs[k].ext /= ""
                /\ convs[k].ext =
                      IF ct \in DOMAIN MIME_TO_EXT THEN MIME_TO_EXT[ct]
                      ELSE IF guess_extension(ct) /= "" THEN guess_extension(ct)
                      ELSE IF PathSuffix(convs[k].url) /= "" THEN PathSuffix(convs[k].url)
                      ELSE ".tmp"

\* C28: fetches of different URLs do not wait for one another: a call for a
\* URL without a cache entry starts its task at once whatever else is in
\* flight, every running task can take its next step whatever the other
\* tasks are doing, and the tasks and callers of one URL come to their end
\* even if the tasks of the other never do.
C28_KeysIndependent ==
    /\ [][\A c \in CallIds :
            (calls[c].pc = "new" /\ calls'[c].pc /= "new" /\ calls'[c].safe
             /\ CacheIndex(calls'[c].url) = 0) =>
                (tasks'[c].pc = FirstStep /\ calls'[c].fut = c)]_vars
    /\ [](\A t \in CallIds : Running(t) => ENABLED TaskStep(t))
    /\ \A t \in CallIds :
          (Running(t) /\ tasks[t].url = UrlB) ~> (tasks[t].pc = "done")
    /\ \A c \in CallIds :
          (calls[c].pc = "await" /\ calls[c].url = UrlB) ~> (calls[c].pc = "done")

\* the task for UrlB, started after the task for UrlA, has ended and its
\* caller has the content while the task for UrlA has not got past its probe
C28_Witness ==
    \E a, b \in CallIds :
        /\ a < b
        /\ tasks[a].url = UrlA /\ tasks[a].pc = "probe"
        /\ tasks[b].url = UrlB /\ tasks[b].pc = "done" /\ ~ tasks[b].failed
        /\ calls[b].pc = "done" /\ calls[b].fut = b
        /\ calls[a].pc = "await"

\* the entry of task t in the cache, 0 when it has none
EntryOf(seq, t) ==
    IF \E i \in 1..Len(seq) : seq[i].fut = t
    THEN CHOOSE i \in 1..Len(seq) : seq[i].fut = t
    ELSE 0

\* C29: in web_fetch.py, when a task ends in failure its entry is gone from
\* the cache and never holds a value, and every caller that awaited it has
\* the error; when a task whose entry no popitem dropped ends in success, its
\* entry is in the cache under its URL with the task's value, and as long as
\* the entry stays there it is the entry of the same task with the same value.
C29_EntryFollowsOutcome ==
    /\ [](variant = "web_fetch" =>
            \A t \in CallIds :
                (tasks[t].pc = "done" /\ tasks[t].failed) =>
                    /\ EntryOf(cache, t) = 0
                    /\ \A c \in CallIds :
                          (calls[c].pc = "done" /\ calls[c].fut = t) =>
                              calls[c].result = FetchFailed(tasks[t].outcome.val))
    /\ [][variant = "web_fetch" =>
            \A t \in CallIds :
                /\ (Running(t) /\ tasks'[t].pc = "done" /\ ~ tasks'[t].failed
                    /\ ~ tasks[t].dropped) =>
                        /\ EntryOf(cache', t) /= 0
                        /\ cache'[EntryOf(cache', t)].key = tasks[t].url
                /\ (tasks[t].pc = "done" /\ EntryOf(cache, t) /= 0
                    /\ EntryOf(cache', t) /= 0) =>
                        /\ cache'[EntryOf(cache', t)].key = cache[EntryOf(cache, t)].key
                        /\ tasks'[t].outcome = tasks[t].outcome]_vars

\* C30: a call whose path does not resolve to a regular file on a
\* FilesystemBackend returns an error marker, and neither that step nor the
\* call before it has touched the converter, the gate, the runs of
\* _init_markitdown or the cache of conversions.
C30_PathErrorReturnsEarly ==
    /\ [](\A r \in ReaderIds :
            (readers[r].pc \notin {"idle", "resolve"} /\ readers[r].resolved /= "ok") =>
                /\ readers[r].pc = "done"
                /\ PySlice(readers[r].result, 0, 1) = <<"<error>">>
                /\ readers[r].run = 0 /\ readers[r].fut = 0
                /\ ~ readers[r].waited /\ readers[r].converter = 0)
    /\ [][\A r \in ReaderIds :
            (readers[r].pc = "resolve" /\ readers'[r].pc /= "resolve"
             /\ readers'[r].resolved /= "ok") =>
                UNCHANGED <<md_converter, md_converter_lock, init_log, file_cache,
                            file_tasks>>]_vars

\* on a FilesystemBackend one call has returned the error for a path that is
\* not a file while nothing was initialized, and with another backend a call
\* for a path that would resolve has returned the backend error
C30_Witness ==
    \E r \in ReaderIds :
        /\ readers[r].pc = "done" /\ md_converter = 0 /\ init_log = <<>>
        /\ file_tasks = <<>>
        /\ \/ backend = "FilesystemBackend"
              /\ readers[r].result = NotAFile(readers[r].file_path)
           \/ backend = "StateBackend"
              /\ readers[r].result = UnsupportedBackend(backend)

\* C31: a conversion that raised reaches its callers as the "Failed to
\* convert file content" marker and its task has no entry, so that no later
\* call is answered from it; and a task is created for a path only when
\* every earlier task for that path has raised or has had its entry expire.
C31_FailureDroppedSuccessOnce ==
    /\ [](\A r \in ReaderIds :
            (readers[r].pc = "done" /\ readers[r].fut /= 0
             /\ file_tasks[readers[r].fut].outcome.exc) =>
                readers[r].result = FailedToConvert(file_tasks[readers[r].fut].outcome.val))
    /\ [](\A t \in 1..Len(file_tasks) :
            (file_tasks[t].st = "done" /\ file_tasks[t].outcome.exc) =>
                \A i \in 1..Len(file_cache) : file_cache[i].fut /= t)
    /\ [][/\ \A r \in ReaderIds :
               (readers[r].fut = 0 /\ readers'[r].fut \in 1..Len(file_tasks)
                /\ file_tasks[readers'[r].fut].st = "done") =>
                   ~ file_tasks[readers'[r].fut].outcome.exc
          /\ Len(file_tasks') > Len(file_tasks) =>
               \A t \in 1..Len(file_tasks) :
                   file_tasks[t].file_path = file_tasks'[Len(file_tasks')].file_path =>
                       /\ file_tasks[t].st = "done"
                       /\ file_tasks[t].outcome.exc \/ file_tasks[t].left = "ttl"]_vars

\* C32: reading with process_content from start_index 0 and on from the
\* offset each truncation marker names, the text parts of the pages read so
\* far are the text up to the offset the last marker names, and the whole
\* text once a page comes without a truncation marker.
C32_ChunksTileTheText ==
    (pager.pc = "called" /\ pager.walk /\ pager.tool = "process_content")
    => IF HasTruncated(pager.out)
       THEN /\ pager.got = SubSeq(pager.text, 1, NamedOffset(pager.out))
            /\ NamedOffset(pager.out) < Len(pager.text)
       ELSE pager.got = pager.text

\* a text of MaxLen characters was read in two pages or more, the last of
\* them without a truncation marker, and the parts kept make up the text
C32_Witness ==
    /\ pager.pc = "called" /\ pager.walk /\ pager.tool = "process_content"
    /\ pager.n >= 2 /\ Len(pager.text) = MaxLen
    /\ ~ HasTruncated(pager.out)
    /\ pager.got = pager.text

\* C33: for any integers start_index and max_length, a truncation marker of
\* process_content names an offset greater than the start_index passed in
\* and at most the length of the text.
C33_MarkerAdvances ==
    (pager.pc = "called" /\ pager.tool = "process_content" /\ HasTruncated(pager.out))
    => /\ NamedOffset(pager.out) > pager.start_index
       /\ NamedOffset(pager.out) <= Len(pager.text)

\* whether call k has created its temporary file and not yet left its
\* finally clause
HoldsFile(k) ==
    convs[k].temp_path /= 0 /\ convs[k].pc \in {"write", "convert", "finally", "remove"}

\* whether call k takes the step that adds op to what it has done
Does(k, op) == op \notin convs[k].did /\ op \in convs'[k].did

\* the extraction of call k starts on a file that this call created and
\* wrote in full, with its session closed
ConvertsItsOwnFile(k) ==
    Does(k, "convert") =>
        /\ {"mktemp", "write"} \subseteq convs[k].did
        /\ convs[k].session = "closed"
        /\ \E f \in files : /\ f.path = convs[k].temp_path
                            /\ f.written /\ f.owner = k

\* no two calls hold a file of the same name at the same time
FilesApart ==
    \A k, j \in ConvIds :
        (k /= j /\ HoldsFile(k) /\ HoldsFile(j)) => convs[k].temp_path /= convs[j].temp_path

\* C34 as stated: the file is created and written and the session closed
\* before the extraction starts, the file is deleted only after the
\* extraction has returned or raised, and no other call has the file.
C34_StrictOrder ==
    /\ [][\A k \in ConvIds :
            /\ ConvertsItsOwnFile(k)
            /\ Does(k, "remove") => "convert" \in convs[k].did]_vars
    /\ []FilesApart

\* C34 as the code has it: the file is created and written and the session
\* closed before the extraction starts; the file is deleted only after the
\* extraction has returned or raised, or after the writing of the body has
\* failed, when the extraction is not started at all; and no other call has
\* the file.
C34_OrderedSteps ==
    /\ [][\A k \in ConvIds :
            /\ ConvertsItsOwnFile(k)
            /\ Does(k, "remove") =>
                  \/ "convert" \in convs[k].did
                  \/ convs[k].seen.write_exc /\ "write" \in convs[k].did]_vars
    /\ [](\A k \in ConvIds :
            (convs[k].seen.write_exc /\ convs[k].pc /= "idle") =>
                "convert" \notin convs[k].did)
    /\ []FilesApart

\* one call has created, written, converted and deleted its file while
\* another call held a file of its own
C34_Witness ==
    \E k, j \in ConvIds :
        /\ k /= j
        /\ convs[k].pc = "returned"
        /\ convs[k].did = {"mktemp", "write", "convert", "remove"}
        /\ HoldsFile(j) /\ "write" \in convs[j].did

----------------------------------------------------------------------------
(* Properties of the memory store client *)

\* C35: a call that has returned or raised has closed the session it created
\* itself, the step that ends a call closes no session the call did not
\* create, and while the client has no session every call in progress uses a
\* session of its own that it created.
C35_PostClosesItsOwnSession ==
    /\ [](\A p \in PostIds :
            (posts[p].pc = "done" /\ posts[p].created_new_session) =>
                /\ sessions[posts[p].session].closed
                /\ sessions[posts[p].session].origin = "post")
    /\ [][\A p \in PostIds :
            (posts[p].pc = "request" /\ posts'[p].pc = "done") =>
                \A s \in 1..Len(sessions) :
                    (s /= posts[p].session \/ ~ posts[p].created_new_session) =>
                        sessions'[s] = sessions[s]]_vars
    /\ [](self_session = 0 =>
            \A p, q \in PostIds :
                (posts[p].pc /= "idle" /\ posts[q].pc /= "idle") =>
                    /\ posts[p].created_new_session
                    /\ p /= q => posts[p].session /= posts[q].session)

\* with no session in the client, a call has returned a JSON object, another
\* has turned a ClientError into a result and a third has raised, and the
\* three sessions they created are closed
C35_Witness ==
    /\ self_session = 0
    /\ \E p, q, r \in PostIds :
          /\ posts[p].pc = "done" /\ posts[p].seen = "json"
          /\ posts[q].pc = "done" /\ posts[q].seen = "ClientError"
          /\ posts[r].pc = "done" /\ posts[r].raised
          /\ Cardinality({posts[p].session, posts[q].session, posts[r].session}) = 3
          /\ \A s \in {posts[p].session, posts[q].session, posts[r].session} :
                sessions[s].closed

\* C36: no request is in progress on a closed session; a call that starts
\* takes a session that is open; and __aexit__ closes no session but one
\* that __aenter__ created.
C36_SharedSessionSafe ==
    /\ [](\A p \in PostIds :
            posts[p].pc = "request" => ~ sessions[posts[p].session].closed)
    /\ [][\A p \in PostIds :
            (posts[p].pc = "idle" /\ posts'[p].pc = "request") =>
                ~ sessions'[posts'[p].session].closed]_vars
    /\ [][(entered /\ ~ entered') =>
            \A s \in 1..Len(sessions) :
                (~ sessions[s].closed /\ sessions'[s].closed) =>
                    sessions[s].origin = "aenter"]_vars

\* C37: a ClientError in the request is not raised but returned as the
\* result with code -1 and the message, and on a result whose code is not 0
\* get_history returns the empty list and search_memory the empty mapping.
C37_ClientErrorIsAResult ==
    \A p \in PostIds :
        posts[p].pc = "done" =>
            /\ posts[p].seen = "ClientError" =>
                  /\ ~ posts[p].raised
                  /\ posts[p].result.has_code /\ posts[p].result.code = 0 - 1
                  /\ PySlice(posts[p].result.message, 0, 1) = <<"Request failed: ">>
            /\ (~ posts[p].raised
                /\ ~ (posts[p].result.has_code /\ posts[p].result.code = 0)) =>
                  /\ posts[p].history = <<>>
                  /\ posts[p].memory = {}

\* get_history and search_memory have each met a ClientError and a JSON
\* object that carries data under a code other than 0, and get_history has
\* returned the cleaned messages of a result with code 0
C37_Witness ==
    \E p, q, r \in PostIds :
        /\ posts[p].pc = "done" /\ posts[p].method = "get_history"
        /\ posts[p].seen = "ClientError"
        /\ posts[q].pc = "done" /\ posts[q].method \in {"get_history", "search_memory"}
        /\ posts[q].result.has_code /\ posts[q].result.code = 40001
        /\ posts[q].result.data /= {}
        /\ posts[r].pc = "done" /\ posts[r].method = "get_history"
        /\ Len(posts[r].history) = Len(StoredMessages)

----------------------------------------------------------------------------
(* Properties of the logging context *)

\* C38: when a task leaves a LogContext block the getters return in that
\* task what they returned just before the block was entered, however deep
\* the blocks are nested, and a step that changes the values of one task
\* changes those of no other.
C38_ExitRestores ==
    [][\A t \in TaskIds :
          /\ Len(blocks'[t]) < Len(blocks[t]) =>
                Current(ctx'[t]) = blocks[t][Len(blocks[t])].before
          /\ ctx'[t] /= ctx[t] => \A u \in TaskIds \ {t} : ctx'[u] = ctx[u]]_vars

=============================================================================
